---------------------------- MODULE Spec2Model ----------------------------
(***************************************************************************)
(* A model of 9router's streaming translation core:                        *)
(*   open-sse/utils/stream.js        createSSEStream (transform / flush),  *)
(*                                   parseSSELine, extractUsage, logUsage  *)
(*   translator/response/openai-to-claude  (src/unnamed/part_002)          *)
(*   translator/response/claude-to-openai.js                               *)
(*                                                                         *)
(* Notation.  Upstream bytes are strings: an ASCII byte is the one-char    *)
(* string of its character, "NL" is 0x0A, and "xC3" "xA9" are the two      *)
(* bytes of U+00E9.  Decoded text is a sequence of characters: the ASCII   *)
(* characters, "NL", "U00E9" and "UFFFD" (the replacement character).      *)
(*                                                                         *)
(* JSON payloads are written in a compressed notation: "{" body "}" where  *)
(* body is one letter of the catalogue Doc (each letter abbreviates one    *)
(* JSON document an upstream sends), or a run of non-ASCII characters      *)
(* (abbreviating an OpenAI content chunk whose text is that run).          *)
(* JSONparse recognises exactly this language and fails on anything else,  *)
(* as JSON.parse fails on a truncated or damaged document.                 *)
(***************************************************************************)
EXTENDS Integers, Sequences, FiniteSets, TLC

\* ------------------------------------------------------------------ bounds

\* Largest number of lines of one upstream byte stream.
MaxLines == 3

\* Largest fragment, in bytes, a fragmenting network delivers in the middle
\* of a line (it also delivers up to any line end, or all that is left).
MaxCut == 3

\* The streams the process holds at once (createSSEStream is called once
\* per request; two requests are enough to interleave).
Streams == {1, 2}

\* ------------------------------------------------------- sequence helpers

Last(s) == s[Len(s)]

Front(s) == SubSeq(s, 1, Len(s) - 1)

RECURSIVE Flatten(_)
Flatten(ss) == IF ss = <<>> THEN <<>> ELSE Head(ss) \o Flatten(Tail(ss))

\* The number of elements of s that satisfy Test.
Count(s, Test(_)) == Len(SelectSeq(s, Test))

\* ------------------------------------------------- TextDecoder (UTF-8)

IsLead(b) == b = "xC3"

IsCont(b) == b = "xA9"

RECURSIVE Utf8Run(_, _, _)
\* The WHATWG UTF-8 decoder run over bytes, non-fatal: pending is the lead
\* byte seen and not yet completed (<<>> when none).  A lead followed by a
\* continuation is U+00E9; a lead followed by anything else is U+FFFD and
\* the byte is processed again; a stray continuation is U+FFFD.
Utf8Run(pending, bytes, acc) ==
  IF bytes = <<>> THEN [text |-> acc, pending |-> pending]
  ELSE LET b == Head(bytes) IN
    IF pending # <<>>
    THEN IF IsCont(b)
         THEN Utf8Run(<<>>, Tail(bytes), Append(acc, "U00E9"))
         ELSE Utf8Run(<<>>, bytes, Append(acc, "UFFFD"))
    ELSE IF IsLead(b) THEN Utf8Run(<<b>>, Tail(bytes), acc)
    ELSE IF IsCont(b) THEN Utf8Run(<<>>, Tail(bytes), Append(acc, "UFFFD"))
    ELSE Utf8Run(<<>>, Tail(bytes), Append(acc, b))

\* A decoder called without { stream: true }: an incomplete sequence at
\* the end of a chunk becomes U+FFFD at once.  C5 does not hold for it.
DecodeOneShot(pending, bytes) ==
  LET r == Utf8Run(pending, bytes, <<>>)
  IN [text |-> r.text \o (IF r.pending = <<>> THEN <<>> ELSE <<"UFFFD">>),
      pending |-> <<>>]

\* sharedDecoder.decode(chunk, { stream: true }): incomplete input is kept
\* in the decoder for the next call.
DecodeStream(pending, bytes) == Utf8Run(pending, bytes, <<>>)

\* sharedDecoder.decode(): end of input; an incomplete sequence is emitted
\* as U+FFFD and the decoder is reset.
DecodeEnd(pending) ==
  [text |-> IF pending = <<>> THEN <<>> ELSE <<"UFFFD">>, pending |-> <<>>]

\* sharedEncoder.encode of one character (for the passthrough byte output).
EncodeChar(c) ==
  IF c = "U00E9" THEN <<"xC3", "xA9">>
  ELSE IF c = "UFFFD" THEN <<"xEF", "xBF", "xBD">>
  ELSE <<c>>

\* ------------------------------------------------------ string operations

IsSpace(c) == c \in {" ", "NL"}

RECURSIVE TrimLeft(_)
TrimLeft(s) ==
  IF s # <<>> /\ IsSpace(Head(s)) THEN TrimLeft(Tail(s)) ELSE s

RECURSIVE TrimRight(_)
TrimRight(s) ==
  IF s # <<>> /\ IsSpace(Last(s)) THEN TrimRight(Front(s)) ELSE s

\* String.prototype.trim
Trim(s) == TrimRight(TrimLeft(s))

\* String.prototype.slice(n) for n >= 0
Slice(s, n) == SubSeq(s, n + 1, Len(s))

StartsWith(s, p) == Len(s) >= Len(p) /\ SubSeq(s, 1, Len(p)) = p

RECURSIVE SplitFrom(_, _, _)
SplitFrom(text, cur, acc) ==
  IF text = <<>> THEN Append(acc, cur)
  ELSE IF Head(text) = "NL" THEN SplitFrom(Tail(text), <<>>, Append(acc, cur))
  ELSE SplitFrom(Tail(text), Append(cur, Head(text)), acc)

\* buffer.split("\n"): always at least one element, the last one being the
\* text after the last newline.
SplitLines(text) == SplitFrom(text, <<>>, <<>>)

DataPrefix == <<"d", "a", "t", "a", ":">>

DoneText == <<"[", "D", "O", "N", "E", "]">>

\* ---------------------------------------------------- upstream documents

\* An optional field of a JSON object: obj.f !== undefined.
Has(obj, f) == f \in DOMAIN obj

\* obj[key] = value.
With(obj, key, value) ==
  [k \in DOMAIN obj \cup {key} |-> IF k = key THEN value ELSE obj[k]]

\* Array.prototype.includes
Includes(s, e) == \E i \in 1..Len(s) : s[i] = e

\* The empty JSON object.
EmptyObj == [x \in {} |-> 0]

\* null: the chunk of the final translator call, or a null inside a document.
NullChunk == [isNull |-> TRUE]

\* The OpenAI chat.completion.chunk documents of the catalogue.  "choices"
\* holds choices[0] (the only element the code reads); a chunk whose choices
\* array is empty has no such field.
OpenAILetters ==
  {"c", "e", "C", "r", "t", "u", "v", "g", "G", "N", "f", "U", "V", "i", "I"}

\* The Claude stream events of the catalogue.
ClaudeLetters ==
  {"m", "M", "b", "k", "w", "W", "x", "h", "j", "J", "s", "D", "T", "S"}

DocLetters == OpenAILetters \cup ClaudeLetters

Doc(k) ==
  CASE k = "c" -> [choices |-> [delta |-> [content |-> <<"H">>]]]
    [] k = "e" -> [choices |-> [delta |-> [content |-> <<"l">>]]]
    [] k = "C" -> [choices |-> [delta |-> [content |-> <<"o">>],
                                finish_reason |-> "stop"]]
    [] k = "r" -> [choices |-> [delta |-> [reasoning_content |-> <<"r">>]]]
    [] k = "t" -> [choices |-> [delta |-> [tool_calls |->
                     <<[index |-> 0, id |-> "call_a",
                        function |-> [name |-> <<"proxy_", "f">>]]>>]]]
    [] k = "u" -> [choices |-> [delta |-> [tool_calls |->
                     <<[index |-> 0, id |-> "call_b",
                        function |-> [name |-> <<"g">>]]>>]]]
    [] k = "v" -> [choices |-> [delta |-> [tool_calls |->
                     <<[index |-> 1, id |-> "call_c",
                        function |-> [name |-> <<"h">>]]>>]]]
    [] k = "g" -> [choices |-> [delta |-> [tool_calls |->
                     <<[index |-> 0, function |-> [arguments |-> <<"1">>]]>>]]]
    [] k = "G" -> [choices |-> [delta |-> [tool_calls |->
                     <<[index |-> 1, function |-> [arguments |-> <<"{", "\"">>]]>>]]]
    [] k = "N" -> [choices |-> [delta |-> [tool_calls |-> <<NullChunk>>]]]
    [] k = "f" -> [choices |-> [delta |-> EmptyObj, finish_reason |-> "stop"]]
    [] k = "U" -> [usage |-> [prompt_tokens |-> 1, completion_tokens |-> 1]]
    [] k = "V" -> [choices |-> [delta |-> [content |-> <<"l">>]],
                   usage |-> [prompt_tokens |-> 2, completion_tokens |-> 3]]
    [] k = "i" -> [id |-> "chatcmpl_1", model |-> "gpt",
                   choices |-> [delta |-> [content |-> <<"H">>]]]
    [] k = "I" -> [id |-> "chatcmpl_2", model |-> "other",
                   choices |-> [delta |-> [content |-> <<"l">>]]]
    [] k = "m" -> [type |-> "message_start",
                   message |-> [id |-> "msg_1", model |-> "claude"]]
    [] k = "M" -> [type |-> "message_start",
                   message |-> [id |-> "msg_2", model |-> "other"]]
    [] k = "b" -> [type |-> "content_block_start", index |-> 0,
                   content_block |-> [type |-> "text"]]
    [] k = "k" -> [type |-> "content_block_start", index |-> 0,
                   content_block |-> [type |-> "thinking"]]
    [] k = "w" -> [type |-> "content_block_start", index |-> 1,
                   content_block |-> [type |-> "tool_use", id |-> "toolu_a",
                                      name |-> <<"proxy_", "f">>]]
    [] k = "W" -> [type |-> "content_block_start", index |-> 2,
                   content_block |-> [type |-> "tool_use", id |-> "toolu_b",
                                      name |-> <<"g">>]]
    [] k = "x" -> [type |-> "content_block_delta", index |-> 0,
                   delta |-> [type |-> "text_delta", text |-> <<"H">>]]
    [] k = "h" -> [type |-> "content_block_delta", index |-> 0,
                   delta |-> [type |-> "thinking_delta", thinking |-> <<"r">>]]
    [] k = "j" -> [type |-> "content_block_delta", index |-> 1,
                   delta |-> [type |-> "input_json_delta",
                              partial_json |-> <<"1">>]]
    [] k = "J" -> [type |-> "content_block_delta", index |-> 2,
                   delta |-> [type |-> "input_json_delta",
                              partial_json |-> <<"{", "\"">>]]
    [] k = "s" -> [type |-> "content_block_stop", index |-> 0]
    [] k = "D" -> [type |-> "message_delta",
                   delta |-> [stop_reason |-> "end_turn"],
                   usage |-> [input_tokens |-> 4, output_tokens |-> 5]]
    [] k = "T" -> [type |-> "message_delta",
                   delta |-> [stop_reason |-> "tool_use"]]
    [] k = "S" -> [type |-> "message_stop"]

IsTextChar(c) == c \in {"U00E9", "UFFFD"}

\* JSON.parse on the compressed notation: [ok, value].  Only "{" body "}"
\* parses, with body one catalogue letter or a non-empty run of non-ASCII
\* text characters (an OpenAI content chunk carrying that text).
JSONparse(data) ==
  LET body == SubSeq(data, 2, Len(data) - 1) IN
  IF Len(data) < 3 \/ Head(data) # "{" \/ Last(data) # "}"
  THEN [ok |-> FALSE]
  ELSE IF Len(body) = 1 /\ body[1] \in DocLetters
  THEN [ok |-> TRUE, value |-> Doc(body[1])]
  ELSE IF \A i \in 1..Len(body) : IsTextChar(body[i])
  THEN [ok |-> TRUE, value |-> [choices |-> [delta |-> [content |-> body]]]]
  ELSE [ok |-> FALSE]

\* A parser that takes a payload it cannot parse for the end of the
\* stream.  C9 does not hold for it.
parseSSELineAbort(line) ==
  IF line = <<>> \/ Head(line) # "d" THEN [kind |-> "null"]
  ELSE LET data == Trim(Slice(line, 5)) IN
    IF data = DoneText THEN [kind |-> "done"]
    ELSE LET r == JSONparse(data) IN
      IF r.ok THEN [kind |-> "json", value |-> r.value]
      ELSE [kind |-> "done"]

\* parseSSELine: [kind |-> "null"], [kind |-> "done"] or
\* [kind |-> "json", value |-> the parsed document].  Only the first
\* character is compared ('d'); the next four are skipped unread.
parseSSELine(line) ==
  IF line = <<>> \/ Head(line) # "d" THEN [kind |-> "null"]
  ELSE LET data == Trim(Slice(line, 5)) IN
    IF data = DoneText THEN [kind |-> "done"]
    ELSE LET r == JSONparse(data) IN
      IF r.ok THEN [kind |-> "json", value |-> r.value]
      ELSE [kind |-> "null"]

\* a || 0 for an optional counter.
OrZero(obj, f) == IF Has(obj, f) THEN obj[f] ELSE 0

\* extractUsage: <<>> for null, <<usage>> otherwise.  The optional detail
\* counters (cache_*, cached_tokens, reasoning_tokens) are undefined for
\* every document of the catalogue and are left out of the record.
extractUsage(chunk) ==
  IF Has(chunk, "type") /\ chunk.type = "message_delta" /\ Has(chunk, "usage")
  THEN <<[prompt_tokens |-> OrZero(chunk.usage, "input_tokens"),
          completion_tokens |-> OrZero(chunk.usage, "output_tokens")]>>
  ELSE IF Has(chunk, "type") /\ chunk.type \in {"response.completed", "response.done"}
          /\ Has(chunk, "response") /\ Has(chunk.response, "usage")
  THEN <<[prompt_tokens |-> IF OrZero(chunk.response.usage, "input_tokens") # 0
                            THEN chunk.response.usage.input_tokens
                            ELSE OrZero(chunk.response.usage, "prompt_tokens"),
          completion_tokens |-> IF OrZero(chunk.response.usage, "output_tokens") # 0
                                THEN chunk.response.usage.output_tokens
                                ELSE OrZero(chunk.response.usage, "completion_tokens")]>>
  ELSE IF Has(chunk, "usage") /\ Has(chunk.usage, "prompt_tokens")
  THEN <<[prompt_tokens |-> chunk.usage.prompt_tokens,
          completion_tokens |-> OrZero(chunk.usage, "completion_tokens")]>>
  ELSE IF Has(chunk, "usageMetadata")
  THEN <<[prompt_tokens |-> OrZero(chunk.usageMetadata, "promptTokenCount"),
          completion_tokens |-> OrZero(chunk.usageMetadata, "candidatesTokenCount")]>>
  ELSE <<>>

\* ------------------------------------------------------- StreamingState

\* A JavaScript Map, in insertion order: a sequence of [key, val].
MapHas(m, k) == \E i \in 1..Len(m) : m[i].key = k

MapGet(m, k) == m[CHOOSE i \in 1..Len(m) : m[i].key = k].val

\* Map.prototype.set: an existing key keeps its place.
MapSet(m, k, v) ==
  IF MapHas(m, k)
  THEN [i \in 1..Len(m) |-> IF m[i].key = k THEN [key |-> k, val |-> v] ELSE m[i]]
  ELSE Append(m, [key |-> k, val |-> v])

\* initState(sourceFormat) spread into the stream's state: every flag
\* unset, an empty toolCalls Map, no usage.  Fields the translators create
\* on first use (undefined until then) start at -1 or "".
InitState ==
  [messageStartSent |-> FALSE, messageId |-> "", model |-> "",
   nextBlockIndex |-> 0,
   thinkingBlockStarted |-> FALSE, thinkingBlockIndex |-> -1,
   textBlockStarted |-> FALSE, textBlockClosed |-> FALSE, textBlockIndex |-> -1,
   toolCalls |-> <<>>, toolCallIndex |-> 0,
   inThinkingBlock |-> FALSE, currentBlockIndex |-> -1,
   finishReason |-> "", finishReasonSent |-> FALSE,
   usage |-> <<>>, toolNameMap |-> <<>>]

\* ---------------------------------------------- OpenAI -> Claude response

CLAUDE_OAUTH_TOOL_PREFIX == "proxy_"

\* acc is [state, results]: the translator's state and the events pushed
\* so far in this call.
Push(acc, ev) == [acc EXCEPT !.results = Append(@, ev)]

stopThinkingBlock(acc) ==
  IF ~acc.state.thinkingBlockStarted THEN acc
  ELSE [state |-> [acc.state EXCEPT !.thinkingBlockStarted = FALSE],
        results |-> Append(acc.results,
                           [type |-> "content_block_stop",
                            index |-> acc.state.thinkingBlockIndex])]

\* A stopTextBlock that marks the block closed without emitting
\* content_block_stop.  C10 does not hold for it.
stopTextBlockSilent(acc) ==
  IF ~acc.state.textBlockStarted \/ acc.state.textBlockClosed THEN acc
  ELSE [acc EXCEPT !.state.textBlockClosed = TRUE,
                   !.state.textBlockStarted = FALSE]

stopTextBlock(acc) ==
  IF ~acc.state.textBlockStarted \/ acc.state.textBlockClosed THEN acc
  ELSE [state |-> [acc.state EXCEPT !.textBlockClosed = TRUE,
                                    !.textBlockStarted = FALSE],
        results |-> Append(acc.results,
                           [type |-> "content_block_stop",
                            index |-> acc.state.textBlockIndex])]

convertFinishReason(reason) ==
  CASE reason = "stop" -> "end_turn"
    [] reason = "length" -> "max_tokens"
    [] reason = "tool_calls" -> "tool_use"
    [] OTHER -> "end_turn"

\* First chunk: message_start.  The id is the chunk's id when it has one
\* (the catalogue's chunks have none: the code then makes one from the
\* clock, "msg_now" here).
O2CMessageStart(chunk, acc) ==
  IF acc.state.messageStartSent THEN acc
  ELSE LET id == IF Has(chunk, "id") THEN chunk.id ELSE "msg_now"
           mdl == IF Has(chunk, "model") THEN chunk.model ELSE "unknown"
           st == [acc.state EXCEPT !.messageStartSent = TRUE, !.messageId = id,
                                   !.model = mdl, !.nextBlockIndex = 0]
       IN [state |-> st,
           results |-> Append(acc.results,
                              [type |-> "message_start",
                               message |-> [id |-> id, model |-> mdl]])]

\* delta?.reasoning_content || delta?.reasoning
ReasoningOf(delta) ==
  IF Has(delta, "reasoning_content") /\ delta.reasoning_content # <<>>
  THEN delta.reasoning_content
  ELSE IF Has(delta, "reasoning") THEN delta.reasoning ELSE <<>>

O2CReasoning(delta, acc) ==
  IF ReasoningOf(delta) = <<>> THEN acc
  ELSE LET a1 == stopTextBlock(acc)
           a2 == IF a1.state.thinkingBlockStarted THEN a1
                 ELSE [state |-> [a1.state EXCEPT
                                    !.thinkingBlockIndex = a1.state.nextBlockIndex,
                                    !.nextBlockIndex = @ + 1,
                                    !.thinkingBlockStarted = TRUE],
                       results |-> Append(a1.results,
                                      [type |-> "content_block_start",
                                       index |-> a1.state.nextBlockIndex,
                                       content_block |-> [type |-> "thinking"]])]
       IN Push(a2, [type |-> "content_block_delta",
                    index |-> a2.state.thinkingBlockIndex,
                    delta |-> [type |-> "thinking_delta",
                               thinking |-> ReasoningOf(delta)]])

O2CContent(delta, acc) ==
  IF ~(Has(delta, "content") /\ delta.content # <<>>) THEN acc
  ELSE LET a1 == stopThinkingBlock(acc)
           a2 == IF a1.state.textBlockStarted THEN a1
                 ELSE [state |-> [a1.state EXCEPT
                                    !.textBlockIndex = a1.state.nextBlockIndex,
                                    !.nextBlockIndex = @ + 1,
                                    !.textBlockStarted = TRUE,
                                    !.textBlockClosed = FALSE],
                       results |-> Append(a1.results,
                                      [type |-> "content_block_start",
                                       index |-> a1.state.nextBlockIndex,
                                       content_block |-> [type |-> "text"]])]
       IN Push(a2, [type |-> "content_block_delta",
                    index |-> a2.state.textBlockIndex,
                    delta |-> [type |-> "text_delta", text |-> delta.content]])

\* tc.function?.name || ""
ToolNameOf(tc) ==
  IF Has(tc, "function") /\ Has(tc.function, "name") THEN tc.function.name ELSE <<>>

\* Strip the Claude OAuth prefix from a tool name.
StripPrefix(name) ==
  IF name # <<>> /\ Head(name) = CLAUDE_OAUTH_TOOL_PREFIX THEN Tail(name) ELSE name

\* One element of delta.tool_calls, its arguments sent to the block opened
\* last instead of the block of its tool index.
O2CToolCallNewest(tc, acc) ==
  LET idx == IF Has(tc, "index") THEN tc.index ELSE 0
      a1 == IF ~Has(tc, "id") THEN acc
            ELSE LET b1 == stopTextBlock(stopThinkingBlock(acc))
                     blk == b1.state.nextBlockIndex
                 IN [state |-> [b1.state EXCEPT
                                  !.nextBlockIndex = @ + 1,
                                  !.toolCalls = MapSet(@, idx,
                                      [id |-> tc.id, name |-> ToolNameOf(tc),
                                       blockIndex |-> blk])],
                     results |-> Append(b1.results,
                                    [type |-> "content_block_start",
                                     index |-> blk,
                                     content_block |->
                                       [type |-> "tool_use", id |-> tc.id,
                                        name |-> StripPrefix(ToolNameOf(tc))]])]
  IN IF Has(tc, "function") /\ Has(tc.function, "arguments")
        /\ tc.function.arguments # <<>> /\ MapHas(a1.state.toolCalls, idx)
     THEN Push(a1, [type |-> "content_block_delta",
                    index |-> a1.state.nextBlockIndex - 1,
                    delta |-> [type |-> "input_json_delta",
                               partial_json |-> tc.function.arguments]])
     ELSE a1

\* One element of delta.tool_calls.
O2CToolCall(tc, acc) ==
  LET idx == IF Has(tc, "index") THEN tc.index ELSE 0
      a1 == IF ~Has(tc, "id") THEN acc
            ELSE LET b1 == stopTextBlock(stopThinkingBlock(acc))
                     blk == b1.state.nextBlockIndex
                 IN [state |-> [b1.state EXCEPT
                                  !.nextBlockIndex = @ + 1,
                                  !.toolCalls = MapSet(@, idx,
                                      [id |-> tc.id, name |-> ToolNameOf(tc),
                                       blockIndex |-> blk])],
                     results |-> Append(b1.results,
                                    [type |-> "content_block_start",
                                     index |-> blk,
                                     content_block |->
                                       [type |-> "tool_use", id |-> tc.id,
                                        name |-> StripPrefix(ToolNameOf(tc))]])]
  IN IF Has(tc, "function") /\ Has(tc.function, "arguments")
        /\ tc.function.arguments # <<>> /\ MapHas(a1.state.toolCalls, idx)
     THEN Push(a1, [type |-> "content_block_delta",
                    index |-> MapGet(a1.state.toolCalls, idx).blockIndex,
                    delta |-> [type |-> "input_json_delta",
                               partial_json |-> tc.function.arguments]])
     ELSE a1

RECURSIVE O2CToolCalls(_, _)
O2CToolCalls(tcs, acc) ==
  IF tcs = <<>> THEN acc
  ELSE O2CToolCalls(Tail(tcs), O2CToolCall(Head(tcs), acc))

\* choice.finish_reason: close the thinking and text blocks, emit a stop for
\* every entry of the toolCalls Map, then message_delta and message_stop.
O2CFinish(choice, acc) ==
  IF ~Has(choice, "finish_reason") THEN acc
  ELSE LET a1 == stopTextBlock(stopThinkingBlock(acc))
           tools == a1.state.toolCalls
           stops == [i \in 1..Len(tools) |->
                       [type |-> "content_block_stop",
                        index |-> tools[i].val.blockIndex]]
       IN [state |-> a1.state,
           results |-> a1.results \o stops \o
             <<[type |-> "message_delta",
                delta |-> [stop_reason |-> convertFinishReason(choice.finish_reason)]],
               [type |-> "message_stop"]>>]

\* openaiToClaudeResponse(chunk, state): [state, results]; a null return
\* is results = <<>>.
openaiToClaudeResponse(chunk, state) ==
  IF chunk = NullChunk \/ ~Has(chunk, "choices")
  THEN [state |-> state, results |-> <<>>]
  ELSE LET choice == chunk.choices
           delta == IF Has(choice, "delta") THEN choice.delta ELSE EmptyObj
           a1 == O2CMessageStart(chunk, [state |-> state, results |-> <<>>])
           a2 == O2CReasoning(delta, a1)
           a3 == O2CContent(delta, a2)
           a4 == IF Has(delta, "tool_calls") THEN O2CToolCalls(delta.tool_calls, a3)
                 ELSE a3
       IN O2CFinish(choice, a4)

\* ---------------------------------------------- Claude -> OpenAI response

\* A convertStopReason that hands an unknown reason through.  C14 does not
\* hold for it.
convertStopReasonThrough(reason) ==
  CASE reason = "end_turn" -> "stop"
    [] reason = "max_tokens" -> "length"
    [] reason = "tool_use" -> "tool_calls"
    [] reason = "stop_sequence" -> "stop"
    [] OTHER -> reason

convertStopReason(reason) ==
  CASE reason = "end_turn" -> "stop"
    [] reason = "max_tokens" -> "length"
    [] reason = "tool_use" -> "tool_calls"
    [] reason = "stop_sequence" -> "stop"
    [] OTHER -> "stop"

\* createChunk(state, delta): finish_reason null is an absent field.
createChunk(state, delta) ==
  [id |-> state.messageId, model |-> state.model, choices |-> [delta |-> delta]]

\* A chunk with an empty delta and a finish_reason.
FinishChunk(state, reason) ==
  [id |-> state.messageId, model |-> state.model,
   choices |-> [delta |-> EmptyObj, finish_reason |-> reason]]

C2OMessageStart(chunk, acc) ==
  LET msg == IF Has(chunk, "message") THEN chunk.message ELSE EmptyObj
      st == [acc.state EXCEPT
               !.messageId = IF Has(msg, "id") THEN msg.id ELSE "msg_now",
               !.model = IF Has(msg, "model") THEN msg.model ELSE "",
               !.toolCallIndex = 0]
  IN [state |-> st,
      results |-> Append(acc.results, createChunk(st, [role |-> "assistant"]))]

\* state.toolNameMap?.get(block.name) || block.name
RestoreToolName(state, name) ==
  IF MapHas(state.toolNameMap, name) THEN MapGet(state.toolNameMap, name) ELSE name

C2OBlockStart(chunk, acc) ==
  LET block == IF Has(chunk, "content_block") THEN chunk.content_block ELSE EmptyObj
      btype == IF Has(block, "type") THEN block.type ELSE ""
  IN CASE btype = "text" ->
            [acc EXCEPT !.state.textBlockStarted = TRUE]
       [] btype = "thinking" ->
            LET st == [acc.state EXCEPT !.inThinkingBlock = TRUE,
                                        !.currentBlockIndex = chunk.index]
            IN [state |-> st,
                results |-> Append(acc.results,
                                   createChunk(st, [content |-> <<"<think>">>]))]
       [] btype = "tool_use" ->
            LET toolCall == [index |-> acc.state.toolCallIndex, id |-> block.id,
                             type |-> "function",
                             function |-> [name |-> RestoreToolName(acc.state, block.name),
                                           arguments |-> <<>>]]
                st == [acc.state EXCEPT
                         !.toolCallIndex = @ + 1,
                         !.toolCalls = MapSet(@, chunk.index, toolCall)]
            IN [state |-> st,
                results |-> Append(acc.results,
                                   createChunk(st, [tool_calls |-> <<toolCall>>]))]
       [] OTHER -> acc

C2OBlockDelta(chunk, acc) ==
  LET delta == IF Has(chunk, "delta") THEN chunk.delta ELSE EmptyObj
      dtype == IF Has(delta, "type") THEN delta.type ELSE ""
  IN IF dtype = "text_delta" /\ Has(delta, "text") /\ delta.text # <<>>
     THEN Push(acc, createChunk(acc.state, [content |-> delta.text]))
     ELSE IF dtype = "thinking_delta" /\ Has(delta, "thinking") /\ delta.thinking # <<>>
     THEN Push(acc, createChunk(acc.state, [content |-> delta.thinking]))
     ELSE IF dtype = "input_json_delta" /\ Has(delta, "partial_json")
             /\ delta.partial_json # <<>> /\ MapHas(acc.state.toolCalls, chunk.index)
     THEN LET toolCall == MapGet(acc.state.toolCalls, chunk.index)
              grown == [toolCall EXCEPT !.function.arguments = @ \o delta.partial_json]
          IN [state |-> [acc.state EXCEPT !.toolCalls = MapSet(@, chunk.index, grown)],
              results |-> Append(acc.results,
                            createChunk(acc.state,
                              [tool_calls |-> <<[index |-> toolCall.index,
                                                 id |-> toolCall.id,
                                                 function |->
                                                   [arguments |-> delta.partial_json]]>>]))]
     ELSE acc

C2OBlockStop(chunk, acc) ==
  LET a1 == IF acc.state.inThinkingBlock /\ Has(chunk, "index")
               /\ chunk.index = acc.state.currentBlockIndex
            THEN [state |-> [acc.state EXCEPT !.inThinkingBlock = FALSE],
                  results |-> Append(acc.results,
                                createChunk(acc.state, [content |-> <<"</think>">>]))]
            ELSE acc
  IN [a1 EXCEPT !.state.textBlockStarted = FALSE,
                !.state.thinkingBlockStarted = FALSE]

\* message_delta: a stop_reason always emits a finish chunk.
C2OMessageDelta(chunk, acc) ==
  IF Has(chunk, "delta") /\ Has(chunk.delta, "stop_reason")
  THEN LET reason == convertStopReason(chunk.delta.stop_reason)
           st == [acc.state EXCEPT !.finishReason = reason]
       IN [state |-> [st EXCEPT !.finishReasonSent = TRUE],
           results |-> Append(acc.results, FinishChunk(st, reason))]
  ELSE acc

\* message_stop: a finish chunk unless one was sent.  state.usage is read
\* through input_tokens / output_tokens, which the record extractUsage
\* stores does not carry: the counters come out 0.
C2OMessageStop(acc) ==
  IF acc.state.finishReasonSent THEN acc
  ELSE LET reason == IF acc.state.finishReason # "" THEN acc.state.finishReason
                     ELSE IF Len(acc.state.toolCalls) > 0 THEN "tool_calls"
                     ELSE "stop"
           base == FinishChunk(acc.state, reason)
           withUsage ==
             IF acc.state.usage = <<>> THEN base
             ELSE [id |-> base.id, model |-> base.model, choices |-> base.choices,
                   usage |-> [prompt_tokens |-> OrZero(acc.state.usage[1], "input_tokens"),
                              completion_tokens |-> OrZero(acc.state.usage[1], "output_tokens"),
                              total_tokens |-> OrZero(acc.state.usage[1], "input_tokens")
                                               + OrZero(acc.state.usage[1], "output_tokens")]]
       IN [state |-> [acc.state EXCEPT !.finishReasonSent = TRUE],
           results |-> Append(acc.results, withUsage)]

\* claudeToOpenAIResponse(chunk, state): [state, results].
claudeToOpenAIResponse(chunk, state) ==
  LET acc == [state |-> state, results |-> <<>>]
      event == IF Has(chunk, "type") THEN chunk.type ELSE ""
  IN IF chunk = NullChunk THEN acc
     ELSE CASE event = "message_start" -> C2OMessageStart(chunk, acc)
            [] event = "content_block_start" -> C2OBlockStart(chunk, acc)
            [] event = "content_block_delta" -> C2OBlockDelta(chunk, acc)
            [] event = "content_block_stop" -> C2OBlockStop(chunk, acc)
            [] event = "message_delta" -> C2OMessageDelta(chunk, acc)
            [] event = "message_stop" -> C2OMessageStop(acc)
            [] OTHER -> acc

\* ------------------------------------------------------ translator index

\* Whether openaiToClaudeResponse(chunk, state) throws: the tool call loop
\* reads tc.index of every element of delta.tool_calls, a TypeError when the
\* element is null.
openaiToClaudeRaises(chunk, state) ==
  /\ chunk # NullChunk
  /\ Has(chunk, "choices")
  /\ Has(chunk.choices, "delta")
  /\ Has(chunk.choices.delta, "tool_calls")
  /\ Includes(chunk.choices.delta.tool_calls, NullChunk)

\* translateResponse(targetFormat, sourceFormat, chunk, state): the
\* response translator registered for the pair, upstream (target) format
\* first.  The two pairs modelled are openai -> claude and claude -> openai.
translateResponse(targetFormat, sourceFormat, chunk, state) ==
  IF targetFormat = "openai" /\ sourceFormat = "claude"
  THEN openaiToClaudeResponse(chunk, state)
  ELSE IF targetFormat = "claude" /\ sourceFormat = "openai"
  THEN claudeToOpenAIResponse(chunk, state)
  ELSE [state |-> state, results |-> <<>>]

\* Whether translateResponse throws: it dispatches and nothing more, so it
\* throws when the translator does.  claudeToOpenAIResponse reads every
\* field of the chunk through ?. and throws for no document.
translateRaises(targetFormat, sourceFormat, chunk, state) ==
  /\ targetFormat = "openai" /\ sourceFormat = "claude"
  /\ openaiToClaudeRaises(chunk, state)

\* ------------------------------------ OpenAI -> OpenAI Responses response
\* Texts are sequences of tokens, "<think>" and "</think>" being one token
\* each.  The objects keyed by an output index (msgItemAdded, funcCallIds,
\* ...) are lists of [key, val]; a template string is the sequence of its
\* parts.  The fields the code only writes (reasoningPartAdded, funcArgsDone)
\* and the clock (created) are left out.

\* initState("openai-responses"): nothing started, the counter at zero.
InitResponsesState ==
  [seq |-> 0, started |-> FALSE, responseId |-> "resp_0", inThinking |-> FALSE,
   reasoningId |-> <<>>, reasoningIndex |-> -1, reasoningDone |-> FALSE,
   reasoningBuf |-> <<>>,
   msgItemAdded |-> <<>>, msgContentAdded |-> <<>>, msgItemDone |-> <<>>,
   msgTextBuf |-> <<>>,
   funcCallIds |-> <<>>, funcNames |-> <<>>, funcArgsBuf |-> <<>>,
   funcItemDone |-> <<>>, completedSent |-> FALSE]

\* obj[key], or missing when obj has no such key.
Get(obj, key, missing) == IF MapHas(obj, key) THEN MapGet(obj, key) ELSE missing

\* The keys of obj in the order of for (const i in obj): ascending indices.
RECURSIVE KeysFrom(_, _)
KeysFrom(obj, least) ==
  LET keys == { obj[i].key : i \in 1..Len(obj) } \cap { k \in Int : k >= least }
  IN IF keys = {} THEN <<>>
     ELSE LET k == CHOOSE x \in keys : \A y \in keys : x <= y
          IN <<k>> \o KeysFrom(obj, k + 1)

ForIn(obj) == KeysFrom(obj, 0)

\* An emit that numbers every event of a call from 1.
emitRestarting(acc, eventType, data) ==
  [state |-> [acc.state EXCEPT !.seq = Len(acc.events) + 1],
   events |-> Append(acc.events,
                [event |-> eventType,
                 data |-> With(data, "sequence_number", Len(acc.events) + 1)])]

\* emit(eventType, data) with nextSeq(): acc is [state, events].
emit(acc, eventType, data) ==
  [state |-> [acc.state EXCEPT !.seq = @ + 1],
   events |-> Append(acc.events,
                [event |-> eventType,
                 data |-> With(data, "sequence_number", acc.state.seq + 1)])]

startReasoning(acc, idx) ==
  IF acc.state.reasoningId # <<>> THEN acc
  ELSE LET id == <<"rs_", acc.state.responseId, "_", idx>>
           a1 == [acc EXCEPT !.state.reasoningId = id,
                             !.state.reasoningIndex = idx]
           a2 == emit(a1, "response.output_item.added",
                      [type |-> "response.output_item.added",
                       output_index |-> idx,
                       item |-> [id |-> id, type |-> "reasoning"]])
       IN emit(a2, "response.reasoning_summary_part.added",
               [type |-> "response.reasoning_summary_part.added",
                item_id |-> id, output_index |-> idx])

emitReasoningDelta(acc, text) ==
  IF text = <<>> THEN acc
  ELSE emit([acc EXCEPT !.state.reasoningBuf = @ \o text],
            "response.reasoning_summary_text.delta",
            [type |-> "response.reasoning_summary_text.delta",
             item_id |-> acc.state.reasoningId,
             output_index |-> acc.state.reasoningIndex,
             delta |-> text])

closeReasoning(acc) ==
  IF acc.state.reasoningId = <<>> \/ acc.state.reasoningDone THEN acc
  ELSE LET st == acc.state
           a1 == emit([acc EXCEPT !.state.reasoningDone = TRUE],
                      "response.reasoning_summary_text.done",
                      [type |-> "response.reasoning_summary_text.done",
                       item_id |-> st.reasoningId,
                       output_index |-> st.reasoningIndex,
                       text |-> st.reasoningBuf])
           a2 == emit(a1, "response.reasoning_summary_part.done",
                      [type |-> "response.reasoning_summary_part.done",
                       item_id |-> st.reasoningId,
                       output_index |-> st.reasoningIndex,
                       text |-> st.reasoningBuf])
       IN emit(a2, "response.output_item.done",
               [type |-> "response.output_item.done",
                output_index |-> st.reasoningIndex,
                item |-> [id |-> st.reasoningId, type |-> "reasoning",
                          text |-> st.reasoningBuf]])

emitTextContent(acc, idx, content) ==
  LET msgId == <<"msg_", acc.state.responseId, "_", idx>>
      AddItem(a) ==
        IF Get(a.state.msgItemAdded, idx, FALSE) THEN a
        ELSE emit([a EXCEPT !.state.msgItemAdded = MapSet(@, idx, TRUE)],
                  "response.output_item.added",
                  [type |-> "response.output_item.added",
                   output_index |-> idx,
                   item |-> [id |-> msgId, type |-> "message"]])
      AddPart(a) ==
        IF Get(a.state.msgContentAdded, idx, FALSE) THEN a
        ELSE emit([a EXCEPT !.state.msgContentAdded = MapSet(@, idx, TRUE)],
                  "response.content_part.added",
                  [type |-> "response.content_part.added",
                   item_id |-> msgId, output_index |-> idx])
      Delta(a) ==
        emit(a, "response.output_text.delta",
             [type |-> "response.output_text.delta", item_id |-> msgId,
              output_index |-> idx, delta |-> content])
  IN [Delta(AddPart(AddItem(acc))) EXCEPT
        !.state.msgTextBuf = MapSet(@, idx, Get(@, idx, <<>>) \o content)]

closeMessage(acc, idx) ==
  IF ~Get(acc.state.msgItemAdded, idx, FALSE)
     \/ Get(acc.state.msgItemDone, idx, FALSE)
  THEN acc
  ELSE LET fullText == Get(acc.state.msgTextBuf, idx, <<>>)
           msgId == <<"msg_", acc.state.responseId, "_", idx>>
           a1 == emit([acc EXCEPT !.state.msgItemDone = MapSet(@, idx, TRUE)],
                      "response.output_text.done",
                      [type |-> "response.output_text.done", item_id |-> msgId,
                       output_index |-> idx, text |-> fullText])
           a2 == emit(a1, "response.content_part.done",
                      [type |-> "response.content_part.done", item_id |-> msgId,
                       output_index |-> idx, text |-> fullText])
       IN emit(a2, "response.output_item.done",
               [type |-> "response.output_item.done", output_index |-> idx,
                item |-> [id |-> msgId, type |-> "message",
                          text |-> fullText]])

emitToolCall(acc, tc) ==
  LET tcIdx == IF Has(tc, "index") THEN tc.index ELSE 0
      newCallId == IF Has(tc, "id") THEN <<tc.id>> ELSE <<>>
      funcName == IF Has(tc, "function") /\ Has(tc.function, "name")
                  THEN tc.function.name ELSE <<>>
      arguments == IF Has(tc, "function") /\ Has(tc.function, "arguments")
                   THEN tc.function.arguments ELSE <<>>
      Name(a) ==
        IF funcName # <<>>
        THEN [a EXCEPT !.state.funcNames = MapSet(@, tcIdx, funcName)]
        ELSE a
      Added(a) ==
        IF ~MapHas(a.state.funcCallIds, tcIdx) /\ newCallId # <<>>
        THEN emit([a EXCEPT !.state.funcCallIds = MapSet(@, tcIdx, newCallId[1])],
                  "response.output_item.added",
                  [type |-> "response.output_item.added",
                   output_index |-> tcIdx,
                   item |-> [id |-> <<"fc_", newCallId[1]>>,
                             type |-> "function_call",
                             call_id |-> newCallId[1],
                             name |-> Get(a.state.funcNames, tcIdx, <<>>)]])
        ELSE a
      Buffer(a) ==
        IF Get(a.state.funcArgsBuf, tcIdx, <<>>) = <<>>
        THEN [a EXCEPT !.state.funcArgsBuf = MapSet(@, tcIdx, <<>>)]
        ELSE a
      RefCallId(a) ==
        IF MapHas(a.state.funcCallIds, tcIdx)
        THEN <<MapGet(a.state.funcCallIds, tcIdx)>> ELSE newCallId
      ArgsDelta(a, refCallId) ==
        IF arguments # <<>> /\ refCallId # <<>>
        THEN emit(a, "response.function_call_arguments.delta",
                  [type |-> "response.function_call_arguments.delta",
                   item_id |-> <<"fc_", refCallId[1]>>,
                   output_index |-> tcIdx, delta |-> arguments])
        ELSE a
      Arguments(a) ==
        IF arguments # <<>>
        THEN [ArgsDelta(a, RefCallId(a)) EXCEPT
                !.state.funcArgsBuf = MapSet(@, tcIdx, MapGet(@, tcIdx) \o arguments)]
        ELSE a
  IN Arguments(Buffer(Added(Name(acc))))

closeToolCall(acc, idx) ==
  IF ~MapHas(acc.state.funcCallIds, idx)
     \/ Get(acc.state.funcItemDone, idx, FALSE)
  THEN acc
  ELSE LET callId == MapGet(acc.state.funcCallIds, idx)
           buf == Get(acc.state.funcArgsBuf, idx, <<>>)
           args == IF buf # <<>> THEN buf ELSE <<"{", "}">>
           a1 == emit(acc, "response.function_call_arguments.done",
                      [type |-> "response.function_call_arguments.done",
                       item_id |-> <<"fc_", callId>>, output_index |-> idx,
                       arguments |-> args])
           a2 == emit(a1, "response.output_item.done",
                      [type |-> "response.output_item.done",
                       output_index |-> idx,
                       item |-> [id |-> <<"fc_", callId>>,
                                 type |-> "function_call", arguments |-> args,
                                 call_id |-> callId,
                                 name |-> Get(acc.state.funcNames, idx, <<>>)]])
       IN [a2 EXCEPT !.state.funcItemDone = MapSet(@, idx, TRUE)]

sendCompleted(acc) ==
  IF acc.state.completedSent THEN acc
  ELSE emit([acc EXCEPT !.state.completedSent = TRUE], "response.completed",
            [type |-> "response.completed",
             response |-> [id |-> acc.state.responseId, status |-> "completed"]])

\* for (const i in state.msgItemAdded) closeMessage(state, emit, i)
RECURSIVE CloseMessages(_, _)
CloseMessages(acc, keys) ==
  IF keys = <<>> THEN acc
  ELSE CloseMessages(closeMessage(acc, Head(keys)), Tail(keys))

\* for (const i in state.funcCallIds) closeToolCall(state, emit, i)
RECURSIVE CloseToolCalls(_, _)
CloseToolCalls(acc, keys) ==
  IF keys = <<>> THEN acc
  ELSE CloseToolCalls(closeToolCall(acc, Head(keys)), Tail(keys))

\* The closing sequence shared by the finish branch and flushEvents.
CloseAll(acc) ==
  LET a1 == CloseMessages(acc, ForIn(acc.state.msgItemAdded))
      a2 == closeReasoning(a1)
      a3 == CloseToolCalls(a2, ForIn(a2.state.funcCallIds))
  IN sendCompleted(a3)

flushEvents(state) ==
  IF state.completedSent THEN [state |-> state, events |-> <<>>]
  ELSE CloseAll([state |-> state, events |-> <<>>])

\* Array.prototype.indexOf on the tokens of a text, 0 when absent.
IndexOf(text, token) ==
  IF Includes(text, token)
  THEN CHOOSE i \in 1..Len(text) :
         text[i] = token /\ \A j \in 1..(i - 1) : text[j] # token
  ELSE 0

\* content.replace(token, ""): the first occurrence is removed.
RemoveFirst(text, token) ==
  LET i == IndexOf(text, token)
  IN IF i = 0 THEN text ELSE SubSeq(text, 1, i - 1) \o SubSeq(text, i + 1, Len(text))

\* for (const tc of delta.tool_calls) emitToolCall(state, emit, tc)
RECURSIVE EmitToolCalls(_, _)
EmitToolCalls(acc, calls) ==
  IF calls = <<>> THEN acc
  ELSE EmitToolCalls(emitToolCall(acc, Head(calls)), Tail(calls))

\* The branch "Handle text content": [acc, returned], returned when the
\* function returns from inside it.
TextBranch(acc, idx, delta) ==
  IF ~Has(delta, "content") \/ delta.content = <<>>
  THEN [acc |-> acc, returned |-> FALSE]
  ELSE
    LET opens == Includes(delta.content, "<think>")
        Open(a) ==
          IF opens THEN startReasoning([a EXCEPT !.state.inThinking = TRUE], idx)
          ELSE a
        Opened(text) == IF opens THEN RemoveFirst(text, "<think>") ELSE text
        Close(a, text) ==
          IF Includes(text, "</think>")
          THEN [closeReasoning(
                  emitReasoningDelta(a, SubSeq(text, 1, IndexOf(text, "</think>") - 1)))
                  EXCEPT !.state.inThinking = FALSE]
          ELSE a
        Closed(text) ==
          IF Includes(text, "</think>")
          THEN SubSeq(text, IndexOf(text, "</think>") + 1, Len(text))
          ELSE text
        Rest(a, text) ==
          IF a.state.inThinking /\ text # <<>>
          THEN [acc |-> emitReasoningDelta(a, text), returned |-> TRUE]
          ELSE [acc |-> IF text # <<>> THEN emitTextContent(a, idx, text) ELSE a,
                returned |-> FALSE]
        Split(a, text) == Rest(Close(a, text), Closed(text))
    IN Split(Open(acc), Opened(delta.content))

\* openaiToOpenAIResponsesResponse(chunk, state): [state, events].
openaiToOpenAIResponsesResponse(chunk, state) ==
  IF chunk = NullChunk THEN flushEvents(state)
  ELSE IF ~Has(chunk, "choices") THEN [state |-> state, events |-> <<>>]
  ELSE
    LET choice == chunk.choices
        idx == IF Has(choice, "index") THEN choice.index ELSE 0
        delta == IF Has(choice, "delta") THEN choice.delta ELSE EmptyObj
        Started(a) ==
          IF state.started THEN a
          ELSE emit(emit([a EXCEPT !.state.started = TRUE],
                         "response.created",
                         [type |-> "response.created",
                          response |-> [id |-> state.responseId,
                                        status |-> "in_progress"]]),
                    "response.in_progress",
                    [type |-> "response.in_progress",
                     response |-> [id |-> state.responseId,
                                   status |-> "in_progress"]])
        Reasoning(a) ==
          IF Has(delta, "reasoning_content") /\ delta.reasoning_content # <<>>
          THEN emitReasoningDelta(startReasoning(a, idx), delta.reasoning_content)
          ELSE a
        ToolCalls(a) ==
          IF Has(delta, "tool_calls")
          THEN EmitToolCalls(closeMessage(a, idx), delta.tool_calls)
          ELSE a
        Finish(a) == IF Has(choice, "finish_reason") THEN CloseAll(a) ELSE a
        AfterText(text) ==
          IF text.returned THEN text.acc ELSE Finish(ToolCalls(text.acc))
    IN AfterText(TextBranch(Reasoning(Started([state |-> state, events |-> <<>>])),
                            idx, delta))

\* ------------------------------------ OpenAI Responses -> OpenAI response

\* initState("openai"), the fields openaiResponsesToOpenAIResponse reads.
InitChatState ==
  [started |-> FALSE, finishReasonSent |-> FALSE, toolCallIndex |-> 0,
   currentToolCallId |-> <<>>]

\* A chat.completion.chunk of this translator: choices[0].
ChatChunk(delta, finish) ==
  IF finish = <<>> THEN [choices |-> [index |-> 0, delta |-> delta]]
  ELSE [choices |-> [index |-> 0, delta |-> delta, finish_reason |-> finish[1]]]

\* openaiResponsesToOpenAIResponse(chunk, state): [state, results], results
\* holding the returned chunk, if any.
openaiResponsesToOpenAIResponse(chunk, state) ==
  IF chunk = NullChunk
  THEN IF ~state.finishReasonSent /\ state.started
       THEN [state |-> [state EXCEPT !.finishReasonSent = TRUE],
             results |-> <<ChatChunk(EmptyObj, <<"stop">>)>>]
       ELSE [state |-> state, results |-> <<>>]
  ELSE
    LET eventType == chunk.type
        st == IF state.started THEN state
              ELSE [state EXCEPT !.started = TRUE, !.toolCallIndex = 0,
                                 !.currentToolCallId = <<>>]
        isCall == Has(chunk, "item") /\ chunk.item.type = "function_call"
    IN CASE eventType = "response.output_text.delta" ->
              IF ~Has(chunk, "delta") \/ chunk.delta = <<>>
              THEN [state |-> st, results |-> <<>>]
              ELSE [state |-> st,
                    results |-> <<ChatChunk([content |-> chunk.delta], <<>>)>>]
         [] eventType = "response.output_item.added" /\ isCall ->
              [state |-> [st EXCEPT !.currentToolCallId = <<chunk.item.call_id>>],
               results |-> <<ChatChunk(
                   [tool_calls |-> <<[index |-> st.toolCallIndex,
                                      id |-> chunk.item.call_id,
                                      function |-> [name |-> chunk.item.name,
                                                    arguments |-> <<>>]]>>],
                   <<>>)>>]
         [] eventType = "response.function_call_arguments.delta" ->
              IF ~Has(chunk, "delta") \/ chunk.delta = <<>>
              THEN [state |-> st, results |-> <<>>]
              ELSE [state |-> st,
                    results |-> <<ChatChunk(
                        [tool_calls |-> <<[index |-> st.toolCallIndex,
                                           function |-> [arguments |-> chunk.delta]]>>],
                        <<>>)>>]
         [] eventType = "response.output_item.done" /\ isCall ->
              [state |-> [st EXCEPT !.toolCallIndex = @ + 1], results |-> <<>>]
         [] eventType = "response.completed" ->
              IF ~st.finishReasonSent
              THEN [state |-> [st EXCEPT !.finishReasonSent = TRUE],
                    results |-> <<ChatChunk(EmptyObj, <<"stop">>)>>]
              ELSE [state |-> st, results |-> <<>>]
         [] OTHER -> [state |-> st, results |-> <<>>]

\* --------------------------------------------------------- SSE framing

\* The record "data: [DONE]\n\n".
DoneRecord == [done |-> TRUE]

IsDone(rec) == Has(rec, "done")

\* formatSSE(data, sourceFormat): one SSE record, [event, data] for the
\* named-event framing and [data] for the plain one.  (No document of the
\* catalogue carries usage.perf_metrics, so nothing is stripped.)
formatSSE(data, sourceFormat) ==
  IF Has(data, "done") /\ data.done = TRUE THEN DoneRecord
  ELSE IF Has(data, "event") /\ Has(data, "data")
  THEN [event |-> data.event, data |-> data.data]
  ELSE IF sourceFormat = "claude" /\ Has(data, "type")
  THEN [event |-> data.type, data |-> data]
  ELSE [data |-> data]

FormatAll(items, sourceFormat) ==
  [i \in 1..Len(items) |-> formatSSE(items[i], sourceFormat)]

\* Passthrough normalisation of one line: "data:" not followed by a space
\* gets one.
Normalize(line) ==
  IF StartsWith(line, DataPrefix) /\ ~StartsWith(line, DataPrefix \o <<" ">>)
  THEN DataPrefix \o <<" ">> \o Slice(line, 5)
  ELSE line

\* ------------------------------------------------------ createSSEStream

\* The per-stream closure of createSSEStream right after construction,
\* with what the stream has produced so far: enqueued (controller.enqueue),
\* handed (the parsed chunks passed to translateResponse) and sink (the
\* calls into usageDb.js); raised tells that the running transform or flush
\* has thrown.
NewStream(opts) ==
  [buffer |-> <<>>, usage |-> <<>>,
   state |-> [InitState EXCEPT !.toolNameMap = opts.toolNameMap],
   enqueued |-> <<>>, handed |-> <<>>, sink |-> <<>>, raised |-> FALSE]

\* One line of the passthrough loop.
PassthroughLine(line, strm) ==
  LET trimmed == Trim(line)
      r == JSONparse(Trim(Slice(trimmed, 5)))
      extracted == IF StartsWith(trimmed, DataPrefix)
                      /\ Trim(Slice(trimmed, 5)) # DoneText /\ r.ok
                   THEN extractUsage(r.value) ELSE <<>>
  IN [strm EXCEPT !.usage = IF extracted # <<>> THEN extracted ELSE @,
                  !.enqueued = Append(@, [text |-> Normalize(line) \o <<"NL">>])]

\* One line of the translate loop.  Nothing catches what translateResponse
\* throws: the chunk was handed over, nothing is enqueued for it.
TranslateLine(opts, line, strm) ==
  LET trimmed == Trim(line)
      parsed == parseSSELine(trimmed)
  IN IF trimmed = <<>> \/ parsed.kind = "null" THEN strm
     ELSE IF parsed.kind = "done"
     THEN [strm EXCEPT !.enqueued = Append(@, DoneRecord)]
     ELSE LET extracted == extractUsage(parsed.value)
              st == IF extracted # <<>>
                    THEN [strm.state EXCEPT !.usage = extracted]
                    ELSE strm.state
              t == translateResponse(opts.targetFormat, opts.sourceFormat,
                                     parsed.value, st)
          IN IF translateRaises(opts.targetFormat, opts.sourceFormat,
                                parsed.value, st)
             THEN [strm EXCEPT !.state = st,
                               !.handed = Append(@, parsed.value),
                               !.raised = TRUE]
             ELSE
             [strm EXCEPT !.state = t.state,
                          !.handed = Append(@, parsed.value),
                          !.enqueued = @ \o FormatAll(t.results, opts.sourceFormat)]

RECURSIVE ForEachLine(_, _, _)
\* for (const line of lines), left when a line throws.
ForEachLine(opts, lines, strm) ==
  IF lines = <<>> \/ strm.raised THEN strm
  ELSE ForEachLine(opts, Tail(lines),
                   IF opts.mode = "passthrough"
                   THEN PassthroughLine(Head(lines), strm)
                   ELSE TranslateLine(opts, Head(lines), strm))

\* A transform that overwrites the buffer with the decoded chunk instead
\* of appending to it.  C16 does not hold for it.
TransformChunkOverwrite(opts, decoder, strm, chunk) ==
  LET d == DecodeStream(decoder, chunk)
      lines == SplitLines(d.text)
  IN [decoder |-> d.pending,
      strm |-> ForEachLine(opts, Front(lines), [strm EXCEPT !.buffer = Last(lines)])]

\* transform(chunk, controller): [decoder, strm].
TransformChunk(opts, decoder, strm, chunk) ==
  LET d == DecodeStream(decoder, chunk)
      lines == SplitLines(strm.buffer \o d.text)
  IN [decoder |-> d.pending,
      strm |-> ForEachLine(opts, Front(lines), [strm EXCEPT !.buffer = Last(lines)])]

\* A logUsage that persists the usage twice.  C8 does not hold
\* for it.
logUsageTwice(usage) ==
  <<[call |-> "appendRequestLog", tokens |-> usage],
    [call |-> "saveRequestUsage", tokens |-> usage],
    [call |-> "saveRequestUsage", tokens |-> usage]>>

\* logUsage(provider, usage, model, connectionId) with usage non-null: one
\* request-log record and one saveRequestUsage call.
logUsage(usage) ==
  <<[call |-> "appendRequestLog", tokens |-> usage],
    [call |-> "saveRequestUsage", tokens |-> usage]>>

\* The usage-less completion record.
CompletionMarker == <<[call |-> "appendRequestLog", tokens |-> <<>>]>>

\* flush, passthrough mode.
FlushPassthrough(strm) ==
  [strm EXCEPT
     !.enqueued = IF strm.buffer # <<>>
                  THEN Append(@, [text |-> Normalize(strm.buffer)]) ELSE @,
     !.sink = @ \o (IF strm.usage # <<>> THEN logUsage(strm.usage)
                    ELSE CompletionMarker)]

\* flush, translate mode: the buffered last line (translated, its usage not
\* extracted), the final translator call with null, [DONE], the usage.  The
\* whole is one try block whose catch only logs: when the translation of the
\* buffered line throws, none of what follows it is done.
FlushTranslate(opts, strm) ==
  LET parsed == parseSSELine(Trim(strm.buffer))
      last == Trim(strm.buffer) # <<>> /\ parsed.kind = "json"
      s1 == IF last
            THEN LET t == translateResponse(opts.targetFormat, opts.sourceFormat,
                                            parsed.value, strm.state)
                 IN [strm EXCEPT !.state = t.state,
                                 !.handed = Append(@, parsed.value),
                                 !.enqueued = @ \o FormatAll(t.results, opts.sourceFormat)]
            ELSE strm
      flushed == translateResponse(opts.targetFormat, opts.sourceFormat,
                                   NullChunk, s1.state)
  IN IF last /\ translateRaises(opts.targetFormat, opts.sourceFormat,
                                parsed.value, strm.state)
     THEN [strm EXCEPT !.handed = Append(@, parsed.value), !.raised = TRUE]
     ELSE
     [s1 EXCEPT
        !.state = flushed.state,
        !.enqueued = (@ \o FormatAll(flushed.results, opts.sourceFormat))
                     \o <<DoneRecord>>,
        !.sink = @ \o (IF flushed.state.usage # <<>> THEN logUsage(flushed.state.usage)
                       ELSE CompletionMarker)]

\* flush(controller): [decoder, strm].
FlushStream(opts, decoder, strm) ==
  LET d == DecodeEnd(decoder)
      s0 == [strm EXCEPT
               !.buffer = @ \o d.text,
               !.sink = Append(@, [call |-> "trackPendingRequest"])]
  IN [decoder |-> d.pending,
      strm |-> IF opts.mode = "passthrough" THEN FlushPassthrough(s0)
               ELSE FlushTranslate(opts, s0)]

\* --------------------------------------------- Gemini -> OpenAI response

\* initState(...), the fields geminiToOpenAIResponse reads.
InitGeminiState ==
  [messageId |-> "", model |-> "", functionIndex |-> 0, toolCalls |-> <<>>,
   finishReason |-> <<>>, usage |-> <<>>]

\* String.prototype.toLowerCase on the finish reasons of the catalogue.
finishReasonToLowerCase(str) ==
  CASE str = "STOP" -> "stop"
    [] str = "MAX_TOKENS" -> "max_tokens"
    [] str = "SAFETY" -> "safety"
    [] str = "FINISH_REASON_UNSPECIFIED" -> "finish_reason_unspecified"
    [] OTHER -> str

\* The chat.completion.chunk literals of geminiToOpenAIResponse; a
\* finish_reason of null is an absent field.
GeminiChunk(state, delta) ==
  [id |-> <<"chatcmpl-", state.messageId>>, model |-> state.model,
   choices |-> [index |-> 0, delta |-> delta]]

\* The function call of a part: a tool call with the next function index.
\* The id is made of the name, the clock and the index.
GeminiFunctionCall(part, acc) ==
  LET fcName == part.functionCall.name
      fcArgs == IF Has(part.functionCall, "args") THEN part.functionCall.args
                ELSE EmptyObj
      toolCallIndex == acc.state.functionIndex
      toolCall == [id |-> [name |-> fcName, now |-> "now", index |-> toolCallIndex],
                   index |-> toolCallIndex, type |-> "function",
                   function |-> [name |-> fcName, arguments |-> [json |-> fcArgs]]]
  IN [state |-> [acc.state EXCEPT
                   !.functionIndex = @ + 1,
                   !.toolCalls = MapSet(@, toolCallIndex, toolCall)],
      results |-> Append(acc.results,
                         GeminiChunk(acc.state, [tool_calls |-> <<toolCall>>]))]

\* One part of candidate.content.parts.
GeminiPart(part, acc) ==
  LET hasThoughtSig == Has(part, "thoughtSignature") \/ Has(part, "thought_signature")
      isThought == Has(part, "thought") /\ part.thought
      hasTextContent == Has(part, "text") /\ part.text # <<>>
      Text(a) ==
        IF hasTextContent
        THEN [a EXCEPT !.results =
                Append(@, GeminiChunk(a.state,
                                      IF hasThoughtSig /\ isThought
                                      THEN [reasoning_content |-> part.text]
                                      ELSE [content |-> part.text]))]
        ELSE a
      Function(a) ==
        IF Has(part, "functionCall") THEN GeminiFunctionCall(part, a) ELSE a
      Inline(a) ==
        IF ~hasThoughtSig /\ Has(part, "inlineData") /\ Has(part.inlineData, "data")
        THEN [a EXCEPT !.results =
                Append(@, GeminiChunk(a.state,
                            [images |-> <<[type |-> "image_url",
                                           image_url |-> part.inlineData]>>]))]
        ELSE a
  IN Inline(Function(Text(acc)))

RECURSIVE GeminiParts(_, _)
\* for (const part of content.parts)
GeminiParts(parts, acc) ==
  IF parts = <<>> THEN acc
  ELSE GeminiParts(Tail(parts), GeminiPart(Head(parts), acc))

\* geminiToOpenAIResponse(chunk, state): [state, results]; a return of null
\* is an empty results.
geminiToOpenAIResponse(chunk, state) ==
  IF chunk = NullChunk THEN [state |-> state, results |-> <<>>]
  ELSE
    LET response == IF Has(chunk, "response") THEN chunk.response ELSE chunk
    IN IF ~Has(response, "candidates") \/ response.candidates = <<>>
       THEN [state |-> state, results |-> <<>>]
       ELSE
         LET candidate == response.candidates[1]
             Initialize(a) ==
               IF a.state.messageId = ""
               THEN LET st == [a.state EXCEPT
                                 !.messageId = IF Has(response, "responseId")
                                               THEN response.responseId ELSE "msg_now",
                                 !.model = IF Has(response, "modelVersion")
                                           THEN response.modelVersion ELSE "gemini",
                                 !.functionIndex = 0]
                    IN [state |-> st,
                        results |-> Append(a.results,
                                           GeminiChunk(st, [role |-> "assistant"]))]
               ELSE a
             Process(a) ==
               IF Has(candidate, "content") /\ Has(candidate.content, "parts")
               THEN GeminiParts(candidate.content.parts, a)
               ELSE a
             Reason(a) ==
               LET lower == finishReasonToLowerCase(candidate.finishReason)
               IN IF lower = "stop" /\ a.state.toolCalls # <<>> THEN "tool_calls"
                  ELSE lower
             Finish(a) ==
               IF Has(candidate, "finishReason")
               THEN [state |-> [a.state EXCEPT !.finishReason = <<Reason(a)>>],
                     results |->
                       Append(a.results,
                              [id |-> <<"chatcmpl-", a.state.messageId>>,
                               model |-> a.state.model,
                               choices |-> [index |-> 0, delta |-> EmptyObj,
                                            finish_reason |-> Reason(a)]])]
               ELSE a
             usageOf == IF Has(response, "usageMetadata") THEN <<response.usageMetadata>>
                        ELSE IF Has(chunk, "usageMetadata") THEN <<chunk.usageMetadata>>
                        ELSE <<>>
             Usage(a) ==
               IF usageOf # <<>>
               THEN [a EXCEPT !.state.usage =
                       <<[prompt_tokens |-> usageOf[1].promptTokenCount
                                              + usageOf[1].thoughtsTokenCount,
                          completion_tokens |-> usageOf[1].candidatesTokenCount,
                          total_tokens |-> usageOf[1].totalTokenCount]>>]
               ELSE a
         IN Usage(Finish(Process(Initialize([state |-> state, results |-> <<>>]))))

\* ------------------------------------------- JSON schema cleaning
\*
\* A schema object is a record of its keywords.  "type" holds a type name;
\* a type given as an array of names is held under "typeList" (the same
\* keyword "type" in the source).  "properties" is a map from property name
\* to schema; "anyOf", "oneOf" and "allOf" are lists of schemas; "items" is
\* a schema; "required" is a list of property names; "const" is a scalar
\* and "enum" a list of scalars, a scalar being [num |-> n] or [str |-> s].
\* The property names of the catalogue are "x", "title" and "reason", so a
\* properties map, which every pass visits like any other object, has no
\* keyword among its keys except the unsupported "title".

UNSUPPORTED_SCHEMA_CONSTRAINTS ==
  {"minLength", "maxLength", "exclusiveMinimum", "exclusiveMaximum",
   "pattern", "minItems", "maxItems", "format",
   "default", "examples",
   "$schema", "$defs", "definitions", "const", "$ref",
   "additionalProperties", "propertyNames", "patternProperties",
   "anyOf", "oneOf", "allOf", "not",
   "dependencies", "dependentSchemas", "dependentRequired",
   "title", "if", "then", "else", "contentMediaType", "contentEncoding",
   "cornerRadius", "fillColor", "fontFamily", "fontSize", "fontWeight",
   "gap", "padding", "strokeColor", "strokeThickness", "textColor"}

\* delete obj[k] for every k of keys.
Without(obj, keys) == [k \in DOMAIN obj \ keys |-> obj[k]]

\* { ...a, ...b } and Object.assign(a, b).  Assigning "type" replaces the
\* type whether it was a name or an array of names.
Assign(a, b) ==
  LET typed == {"type", "typeList"}
      base == IF DOMAIN b \cap typed # {} THEN Without(a, typed) ELSE a
  IN [k \in DOMAIN base \cup DOMAIN b |-> IF k \in DOMAIN b THEN b[k] ELSE base[k]]

\* String(v) of a scalar.
String(v) == IF Has(v, "num") THEN [str |-> ToString(v.num)] ELSE v

\* convertConstToEnum, one object.
ConstToEnum(obj) ==
  IF Has(obj, "const") /\ ~Has(obj, "enum")
  THEN With(Without(obj, {"const"}), "enum", <<obj.const>>)
  ELSE obj

\* convertEnumValuesToStrings, one object.
EnumToStrings(obj) ==
  IF Has(obj, "enum")
  THEN [obj EXCEPT !.enum = [i \in 1..Len(@) |-> String(@[i])]]
  ELSE obj

RECURSIVE PushNew(_, _)
\* for (const req of reqs) if (!acc.includes(req)) acc.push(req)
PushNew(reqs, acc) ==
  IF reqs = <<>> THEN acc
  ELSE PushNew(Tail(reqs),
               IF Includes(acc, Head(reqs)) THEN acc ELSE Append(acc, Head(reqs)))

RECURSIVE MergeItems(_, _)
\* The loop of mergeAllOf over the allOf items: merged.
MergeItems(items, merged) ==
  IF items = <<>> THEN merged
  ELSE LET item == Head(items)
           m1 == IF Has(item, "properties")
                 THEN With(merged, "properties",
                           Assign(IF Has(merged, "properties")
                                  THEN merged.properties ELSE EmptyObj,
                                  item.properties))
                 ELSE merged
           m2 == IF Has(item, "required")
                 THEN With(m1, "required",
                           PushNew(item.required,
                                   IF Has(m1, "required") THEN m1.required ELSE <<>>))
                 ELSE m1
       IN MergeItems(Tail(items), m2)

\* mergeAllOf, one object.
MergeAllOfNode(obj) ==
  IF ~Has(obj, "allOf") THEN obj
  ELSE LET merged == MergeItems(obj.allOf, EmptyObj)
           o1 == Without(obj, {"allOf"})
           o2 == IF Has(merged, "properties")
                 THEN With(o1, "properties",
                           Assign(IF Has(o1, "properties") THEN o1.properties
                                  ELSE EmptyObj, merged.properties))
                 ELSE o1
       IN IF Has(merged, "required")
          THEN With(o2, "required",
                    (IF Has(o2, "required") THEN o2.required ELSE <<>>)
                      \o merged.required)
          ELSE o2

\* The score selectBest gives one schema.
Score(item) ==
  IF (Has(item, "type") /\ item.type = "object") \/ Has(item, "properties") THEN 3
  ELSE IF (Has(item, "type") /\ item.type = "array") \/ Has(item, "items") THEN 2
  ELSE IF Has(item, "typeList") \/ (Has(item, "type") /\ item.type # "null") THEN 1
  ELSE 0

RECURSIVE SelectLoop(_, _, _, _)
\* The loop of selectBest from index i on.
SelectLoop(items, i, bestIdx, bestScore) ==
  IF i > Len(items) THEN bestIdx
  ELSE IF Score(items[i]) > bestScore
  THEN SelectLoop(items, i + 1, i, Score(items[i]))
  ELSE SelectLoop(items, i + 1, bestIdx, bestScore)

\* selectBest(items): the index of the first schema of the highest score.
selectBest(items) == SelectLoop(items, 1, 1, -1)

\* One combinator (anyOf or oneOf) of flattenAnyOfOneOf.
FlattenKey(obj, key) ==
  IF ~Has(obj, key) \/ obj[key] = <<>> THEN obj
  ELSE LET nonNullSchemas ==
             SelectSeq(obj[key], LAMBDA s : ~(Has(s, "type") /\ s.type = "null"))
       IN IF nonNullSchemas = <<>> THEN obj
          ELSE Assign(Without(obj, {key}), nonNullSchemas[selectBest(nonNullSchemas)])

\* flattenAnyOfOneOf, one object.
FlattenNode(obj) == FlattenKey(FlattenKey(obj, "anyOf"), "oneOf")

\* flattenTypeArrays, one object.
FlattenTypeNode(obj) ==
  IF ~Has(obj, "typeList") THEN obj
  ELSE LET nonNullTypes == SelectSeq(obj.typeList, LAMBDA t : t # "null")
       IN With(Without(obj, {"typeList"}), "type",
               IF nonNullTypes # <<>> THEN nonNullTypes[1] ELSE "string")

\* cleanupRequired, one object.
CleanupRequiredNode(obj) ==
  IF Has(obj, "required") /\ Has(obj, "properties")
  THEN LET validRequired ==
             SelectSeq(obj.required, LAMBDA f : f \in DOMAIN obj.properties)
       IN IF validRequired = <<>> THEN Without(obj, {"required"})
          ELSE [obj EXCEPT !.required = validRequired]
  ELSE obj

Placeholder ==
  [reason |-> [type |-> "string",
               description |-> "Brief explanation of why you are calling this tool"]]

\* addPlaceholders, one object.
AddPlaceholderNode(obj) ==
  IF Has(obj, "type") /\ obj.type = "object"
     /\ (~Has(obj, "properties") \/ DOMAIN obj.properties = {})
  THEN With(With(obj, "properties", Placeholder), "required", <<"reason">>)
  ELSE obj

\* What one pass does to one schema object before it visits the values.
NodeOp(pass, obj) ==
  CASE pass = "convertConstToEnum" -> ConstToEnum(obj)
    [] pass = "convertEnumValuesToStrings" -> EnumToStrings(obj)
    [] pass = "mergeAllOf" -> MergeAllOfNode(obj)
    [] pass = "flattenAnyOfOneOf" -> FlattenNode(obj)
    [] pass = "flattenTypeArrays" -> FlattenTypeNode(obj)
    [] pass = "removeUnsupportedKeywords" -> Without(obj, UNSUPPORTED_SCHEMA_CONSTRAINTS)
    [] pass = "cleanupRequired" -> CleanupRequiredNode(obj)
    [] pass = "addPlaceholders" -> AddPlaceholderNode(obj)

\* The same for a properties map: only removeUnsupportedKeywords finds one
\* of its keys there.
MapOp(pass, map) ==
  IF pass = "removeUnsupportedKeywords"
  THEN Without(map, UNSUPPORTED_SCHEMA_CONSTRAINTS) ELSE map

RECURSIVE Walk(_, _, _)
\* One recursive pass over a value of the given kind ("schema", "map" of
\* schemas, "list" of schemas): the object itself, then each of its values
\* that is an object or an array.
Walk(pass, kind, v) ==
  CASE kind = "list" -> [i \in 1..Len(v) |-> Walk(pass, "schema", v[i])]
    [] kind = "map" ->
         LET m == MapOp(pass, v)
         IN [k \in DOMAIN m |-> Walk(pass, "schema", m[k])]
    [] kind = "schema" ->
         LET obj == NodeOp(pass, v)
         IN [k \in DOMAIN obj |->
               IF k = "properties" THEN Walk(pass, "map", obj[k])
               ELSE IF k = "items" THEN Walk(pass, "schema", obj[k])
               ELSE IF k \in {"anyOf", "oneOf", "allOf"} THEN Walk(pass, "list", obj[k])
               ELSE obj[k]]

RECURSIVE RunPasses(_, _)
RunPasses(passes, schema) ==
  IF passes = <<>> THEN schema
  ELSE RunPasses(Tail(passes), Walk(Head(passes), "schema", schema))

\* A cleaning that leaves the unsupported keywords in place.  C12 does not
\* hold for it.
cleanKeepingKeywords(schema) ==
  RunPasses(<<"convertConstToEnum", "convertEnumValuesToStrings",
              "mergeAllOf", "flattenAnyOfOneOf", "flattenTypeArrays",
              "cleanupRequired", "addPlaceholders">>,
            schema)

\* cleanJSONSchemaForAntigravity(schema), schema an object.
cleanJSONSchemaForAntigravity(schema) ==
  RunPasses(<<"convertConstToEnum", "convertEnumValuesToStrings",
              "mergeAllOf", "flattenAnyOfOneOf", "flattenTypeArrays",
              "removeUnsupportedKeywords", "cleanupRequired", "addPlaceholders">>,
            schema)

\* ------------------------------------- Claude -> OpenAI request
\*
\* A message content that is a string is [str |-> text], one that is an
\* array of blocks is [blocks |-> <<...>>]; JSON.stringify(v) is [json |-> v].
\* The tool results of the catalogue carry a string or no content.

\* The content of a converted message made of parts.
PartsContent(parts) ==
  IF Len(parts) = 1 /\ parts[1].type = "text" THEN [str |-> parts[1].text]
  ELSE [blocks |-> parts]

\* convertClaudeMessage, the switch over one block: [parts, toolCalls,
\* toolResults].
ConvertBlock(block, acc) ==
  CASE block.type = "text" ->
         [acc EXCEPT !.parts = Append(@, [type |-> "text", text |-> block.text])]
    [] block.type = "tool_use" ->
         [acc EXCEPT !.toolCalls =
            Append(@, [id |-> block.id, type |-> "function",
                       function |->
                         [name |-> block.name,
                          arguments |-> [json |-> IF Has(block, "input")
                                                  THEN block.input ELSE EmptyObj]]])]
    [] block.type = "tool_result" ->
         [acc EXCEPT !.toolResults =
            Append(@, [role |-> "tool", tool_call_id |-> block.tool_use_id,
                       content |-> IF Has(block, "content") THEN block.content.str
                                   ELSE ""])]
    [] OTHER -> acc

RECURSIVE ConvertBlocks(_, _)
ConvertBlocks(blocks, acc) ==
  IF blocks = <<>> THEN acc
  ELSE ConvertBlocks(Tail(blocks), ConvertBlock(Head(blocks), acc))

\* convertClaudeMessage(msg): the messages it gives (none for null, one,
\* or several for tool results).
convertClaudeMessage(msg) ==
  LET role == IF msg.role \in {"user", "tool"} THEN "user" ELSE "assistant"
  IN IF Has(msg.content, "str")
     THEN <<[role |-> role, content |-> msg.content]>>
     ELSE LET c == ConvertBlocks(msg.content.blocks,
                     [parts |-> <<>>, toolCalls |-> <<>>, toolResults |-> <<>>])
          IN IF c.toolResults # <<>>
             THEN IF c.parts # <<>>
                  THEN Append(c.toolResults,
                              [role |-> "user", content |-> PartsContent(c.parts)])
                  ELSE c.toolResults
             ELSE IF c.toolCalls # <<>>
             THEN IF c.parts # <<>>
                  THEN <<[role |-> "assistant", content |-> PartsContent(c.parts),
                          tool_calls |-> c.toolCalls]>>
                  ELSE <<[role |-> "assistant", tool_calls |-> c.toolCalls]>>
             ELSE IF c.parts # <<>>
             THEN <<[role |-> role, content |-> PartsContent(c.parts)]>>
             ELSE IF msg.content.blocks = <<>>
             THEN <<[role |-> role, content |-> [str |-> ""]]>>
             ELSE <<>>

\* A tool message that answers a tool call.
IsToolResponse(msg) ==
  msg.role = "tool" /\ Has(msg, "tool_call_id") /\ msg.tool_call_id # ""

RECURSIVE RunLength(_, _)
\* The number of tool responses that follow messages[i] without a gap.
RunLength(messages, i) ==
  IF i + 1 <= Len(messages) /\ IsToolResponse(messages[i + 1])
  THEN 1 + RunLength(messages, i + 1)
  ELSE 0

\* A filter that lets every id through.  C17 does not hold for it.
AllIds(toolCallIds, respondedIds) == toolCallIds

\* toolCallIds.filter(id => !respondedIds.has(id))
MissingIds(toolCallIds, respondedIds) ==
  SelectSeq(toolCallIds, LAMBDA id : id \notin respondedIds)

RECURSIVE FixFrom(_, _)
\* The loop of fixMissingToolResponses from messages[i] on.
FixFrom(messages, i) ==
  IF i > Len(messages) THEN messages
  ELSE LET msg == messages[i] IN
    IF msg.role = "assistant" /\ Has(msg, "tool_calls") /\ msg.tool_calls # <<>>
    THEN LET toolCallIds == [k \in 1..Len(msg.tool_calls) |-> msg.tool_calls[k].id]
             insertPosition == i + RunLength(messages, i)
             respondedIds == {messages[j].tool_call_id : j \in (i + 1)..insertPosition}
             missingIds == MissingIds(toolCallIds, respondedIds)
             missingResponses ==
               [k \in 1..Len(missingIds) |->
                  [role |-> "tool", tool_call_id |-> missingIds[k],
                   content |-> "[No response received]"]]
         IN IF missingIds # <<>>
            THEN FixFrom(SubSeq(messages, 1, insertPosition) \o missingResponses
                           \o SubSeq(messages, insertPosition + 1, Len(messages)),
                         insertPosition + Len(missingResponses) + 1)
            ELSE FixFrom(messages, i + 1)
    ELSE FixFrom(messages, i + 1)

\* fixMissingToolResponses(messages): the list after the call.
fixMissingToolResponses(messages) == FixFrom(messages, 1)

\* claudeToOpenAIRequest(model, body, stream): result.messages.
claudeToOpenAIRequest(body) ==
  LET system == IF Has(body, "system") /\ body.system # ""
                THEN <<[role |-> "system", content |-> [str |-> body.system]]>>
                ELSE <<>>
      converted == Flatten([i \in 1..Len(body.messages) |->
                              convertClaudeMessage(body.messages[i])])
  IN fixMissingToolResponses(system \o converted)

\* -------------------------------------------- the Cursor auto-import route
\* A key of itemTable is a sequence of words, so that the substring tests of
\* the queries can be computed; a value is a sequence of characters; an
\* error message is the sequence of the parts of its template.

\* candidateDbPaths of GET, below homedir().
candidateDbPaths ==
  << "Library/Application Support/Cursor/User/globalStorage/state.vscdb",
     "Library/Application Support/Cursor - Insiders/User/globalStorage/state.vscdb" >>

\* The single path of linux, below homedir().
linuxDbPath == ".config/Cursor/User/globalStorage/state.vscdb"

\* The single path of win32, below process.env.APPDATA.
win32DbPath == "Cursor/User/globalStorage/state.vscdb"

accessTokenKeys ==
  << <<"cursorAuth/", "accessToken">>, <<"cursorAuth/", "token">> >>

machineIdKeys ==
  << <<"storage.", "service", "MachineId">>, <<"storage.", "machineId">>,
     <<"telemetry.", "machineId">> >>

desiredKeys == accessTokenKeys \o machineIdKeys

\* String.prototype.toLowerCase, word by word.
toLowerCase(key) ==
  [i \in DOMAIN key |->
     CASE key[i] \in {"accessToken", "AccessToken"} -> "accesstoken"
       [] key[i] \in {"machineId", "MachineId"} -> "machineid"
       [] key[i] = "cursorAuth/" -> "cursorauth/"
       [] OTHER -> key[i]]

\* String.prototype.includes: part occurs in key.
Contains(key, part) ==
  \E i \in 1..(Len(key) - Len(part) + 1) :
     SubSeq(key, i, i + Len(part) - 1) = part

\* key LIKE '%part%' of SQLite, which ignores the case of ASCII letters.
Like(key, part) == Contains(toLowerCase(key), toLowerCase(part))

\* The WHERE clause of the exact query.
ExactRows(table) ==
  SelectSeq(table, LAMBDA row : Includes(desiredKeys, row.key))

\* The WHERE clause of the fuzzy query.
FallbackRows(table) ==
  SelectSeq(table, LAMBDA row :
     \/ Like(row.key, <<"cursorAuth/">>)
     \/ Like(row.key, <<"machineId">>)
     \/ Like(row.key, <<"service", "MachineId">>))

\* normalizeValue(value): a JSON string literal is unwrapped, any other text
\* is kept.
normalizeValue(value) ==
  IF Len(value) >= 2 /\ value[1] = "\"" /\ value[Len(value)] = "\""
  THEN SubSeq(value, 2, Len(value) - 1)
  ELSE value

\* The test of a field that takes the empty string for a credential.
IsUndefined(field) == field = <<>>

\* !tokens.x: the field is undefined or the empty string.
Falsy(field) == field = <<>> \/ field[1] = <<>>

\* const tokens = {}.
NoTokens == [accessToken |-> <<>>, machineId |-> <<>>]

\* The loop over the rows of the exact query where a later row replaces
\* what an earlier one gave.
RECURSIVE ExactLoopLastWins(_, _)
ExactLoopLastWins(rows, tokens) ==
  IF rows = <<>> THEN tokens
  ELSE LET row == Head(rows)
       IN ExactLoopLastWins(Tail(rows),
            IF Includes(accessTokenKeys, row.key)
            THEN [tokens EXCEPT !.accessToken = <<normalizeValue(row.value)>>]
            ELSE IF Includes(machineIdKeys, row.key)
            THEN [tokens EXCEPT !.machineId = <<normalizeValue(row.value)>>]
            ELSE tokens)

\* for (const row of rows) of the exact query.
RECURSIVE ExactLoop(_, _)
ExactLoop(rows, tokens) ==
  IF rows = <<>> THEN tokens
  ELSE LET row == Head(rows)
       IN ExactLoop(Tail(rows),
            IF Includes(accessTokenKeys, row.key) /\ Falsy(tokens.accessToken)
            THEN [tokens EXCEPT !.accessToken = <<normalizeValue(row.value)>>]
            ELSE IF Includes(machineIdKeys, row.key) /\ Falsy(tokens.machineId)
            THEN [tokens EXCEPT !.machineId = <<normalizeValue(row.value)>>]
            ELSE tokens)

\* for (const row of fallbackRows).
RECURSIVE FallbackLoop(_, _)
FallbackLoop(rows, tokens) ==
  IF rows = <<>> THEN tokens
  ELSE LET key == Head(rows).key
           value == normalizeValue(Head(rows).value)
           first == IF Falsy(tokens.accessToken)
                       /\ Contains(toLowerCase(key), <<"accesstoken">>)
                    THEN [tokens EXCEPT !.accessToken = <<value>>]
                    ELSE tokens
           second == IF Falsy(first.machineId)
                        /\ Contains(toLowerCase(key), <<"machineid">>)
                     THEN [first EXCEPT !.machineId = <<value>>]
                     ELSE first
       IN FallbackLoop(Tail(rows), second)

\* The probing of the macOS candidates that takes the last readable one.
RECURSIVE ProbeLast(_, _)
ProbeLast(paths, readable) ==
  IF paths = <<>> THEN [calls |-> <<>>, dbPath |-> <<>>]
  ELSE LET rest == ProbeLast(Tail(paths), readable)
       IN [calls |-> <<Head(paths)>> \o rest.calls,
           dbPath |-> IF rest.dbPath # <<>> THEN rest.dbPath
                      ELSE IF Head(paths) \in readable THEN <<Head(paths)>>
                      ELSE <<>>]

\* for (const path of candidateDbPaths): the calls of access and dbPath.
RECURSIVE Probe(_, _)
Probe(paths, readable) ==
  IF paths = <<>> THEN [calls |-> <<>>, dbPath |-> <<>>]
  ELSE IF Head(paths) \in readable
  THEN [calls |-> <<Head(paths)>>, dbPath |-> <<Head(paths)>>]
  ELSE LET rest == Probe(Tail(paths), readable)
       IN [calls |-> <<Head(paths)>> \o rest.calls, dbPath |-> rest.dbPath]

\* NextResponse.json(body, init).
NextResponseJson(status, body) == [status |-> status, body |-> body]

\* What one call of GET does: the calls of access, the paths given to
\* new Database, the queries run, the calls of db.close, the tokens object
\* at the end and the response.
Outcome(accessCalls, opened, queries, closes, tokens, response) ==
  [accessCalls |-> accessCalls, opened |-> opened, queries |-> queries,
   closes |-> closes, tokens |-> tokens, response |-> response]

\* The try block that reads the opened database.
ReadTokens(platform, canRead, table, accessCalls, dbPath) ==
  IF ~canRead
  THEN Outcome(accessCalls, <<dbPath>>, <<>>, 1, NoTokens,
         NextResponseJson(200, [found |-> FALSE,
            error |-> <<"Failed to read database: ", "SQLITE_ERROR">>]))
  ELSE
    LET exact == ExactLoop(ExactRows(table), NoTokens)
        fallback == platform = "darwin"
                    /\ (Falsy(exact.accessToken) \/ Falsy(exact.machineId))
        tokens == IF fallback THEN FallbackLoop(FallbackRows(table), exact)
                  ELSE exact
        queries == IF fallback THEN <<"exact", "fuzzy">> ELSE <<"exact">>
    IN IF Falsy(tokens.accessToken) \/ Falsy(tokens.machineId)
       THEN Outcome(accessCalls, <<dbPath>>, queries, 1, tokens,
              NextResponseJson(200, [found |-> FALSE,
                 error |-> <<"Tokens not found in database. Please login to Cursor IDE first.">>]))
       ELSE Outcome(accessCalls, <<dbPath>>, queries, 1, tokens,
              NextResponseJson(200, [found |-> TRUE,
                 accessToken |-> tokens.accessToken[1],
                 machineId |-> tokens.machineId[1]]))

\* new Database(dbPath, {readonly, fileMustExist}) and what follows it.
OpenDatabase(platform, canOpen, canRead, table, accessCalls, dbPath) ==
  IF ~canOpen
  THEN Outcome(accessCalls, <<dbPath>>, <<>>, 0, NoTokens,
         NextResponseJson(200, [found |-> FALSE,
            error |-> IF platform = "darwin"
                      THEN <<"Found Cursor database at ", dbPath,
                             " but could not open it: ", "SQLITE_CANTOPEN">>
                      ELSE <<"Cursor database not found. Make sure Cursor IDE is installed and you are logged in.">>]))
  ELSE ReadTokens(platform, canRead, table, accessCalls, dbPath)

\* GET(): readable are the paths access() accepts, canOpen whether the
\* Database constructor succeeds, canRead whether the queries do, table the
\* rows of itemTable in the order SQLite returns them.
GET(platform, readable, canOpen, canRead, table) ==
  IF platform = "darwin"
  THEN LET probe == Probe(candidateDbPaths, readable)
       IN IF probe.dbPath = <<>>
          THEN Outcome(probe.calls, <<>>, <<>>, 0, NoTokens,
                 NextResponseJson(200, [found |-> FALSE,
                    error |-> <<"Cursor database not found in known macOS locations. Make sure Cursor IDE is installed and opened at least once.">>]))
          ELSE OpenDatabase(platform, canOpen, canRead, table, probe.calls,
                            probe.dbPath[1])
  ELSE IF platform = "linux"
  THEN OpenDatabase(platform, canOpen, canRead, table, <<>>, linuxDbPath)
  ELSE IF platform = "win32"
  THEN OpenDatabase(platform, canOpen, canRead, table, <<>>, win32DbPath)
  ELSE Outcome(<<>>, <<>>, <<>>, 0, NoTokens,
         NextResponseJson(400, [error |-> <<"Unsupported platform">>,
                                found |-> FALSE]))

\* ------------------------------------------------ OpenAI -> Kiro request
\*
\* A text is a sequence of tokens.  A history entry is
\* [userInputMessage |-> ...] or [assistantResponseMessage |-> ...].  The
\* accumulator of convertMessages holds history, the pending lists,
\* currentRole ("" for null) and currentRef: currentMessage is the object
\* pushed to history at index currentRef (0 for null), so what is done to
\* that history entry is done to currentMessage.

\* Array.prototype.join
Join(list, sep) ==
  IF list = <<>> THEN <<>>
  ELSE Head(list) \o Flatten([i \in 1..(Len(list) - 1) |-> sep \o list[i + 1]])

\* tools.map(t => ({ toolSpecification: ... }))
ToolSpecifications(tools) ==
  [i \in 1..Len(tools) |->
     LET t == tools[i]
         fn == IF Has(t, "function") THEN t.function ELSE t
         description == IF Has(fn, "description") THEN fn.description ELSE <<>>
     IN [toolSpecification |->
           [name |-> fn.name,
            description |-> IF Trim(description) = <<>> THEN <<"Tool: ">> \o fn.name
                            ELSE description,
            inputSchema |-> [json |-> IF Has(fn, "parameters") THEN fn.parameters
                                      ELSE EmptyObj]]]]

\* flushPending(), with the role it is called under.
flushPending(acc, tools) ==
  IF acc.currentRole = "user"
  THEN LET joined == Trim(Join(acc.pendingUserContent, <<"NL", "NL">>))
           message == [content |-> IF joined = <<>> THEN <<"continue">> ELSE joined,
                       modelId |-> <<>>]
           results == IF acc.pendingToolResults # <<>>
                      THEN [toolResults |-> acc.pendingToolResults] ELSE EmptyObj
           context == IF tools # <<>> /\ acc.history = <<>>
                      THEN With(results, "tools", ToolSpecifications(tools))
                      ELSE results
           userMsg == [userInputMessage |->
                         IF acc.pendingToolResults # <<>>
                            \/ (tools # <<>> /\ acc.history = <<>>)
                         THEN With(message, "userInputMessageContext", context)
                         ELSE message]
       IN [acc EXCEPT !.history = Append(@, userMsg),
                      !.currentRef = Len(acc.history) + 1,
                      !.pendingUserContent = <<>>,
                      !.pendingToolResults = <<>>]
  ELSE IF acc.currentRole = "assistant"
  THEN LET joined == Trim(Join(acc.pendingAssistantContent, <<"NL", "NL">>))
       IN [acc EXCEPT !.history =
                        Append(@, [assistantResponseMessage |->
                                     [content |-> IF joined = <<>> THEN <<"...">>
                                                  ELSE joined]]),
                      !.pendingAssistantContent = <<>>]
  ELSE acc

\* The text of a tool_result block.
ToolResultText(block) ==
  IF ~Has(block, "content") THEN <<>>
  ELSE IF Has(block.content, "blocks")
  THEN Join([i \in 1..Len(block.content.blocks) |->
               IF Has(block.content.blocks[i], "text")
               THEN block.content.blocks[i].text ELSE <<>>], <<"NL">>)
  ELSE block.content.str

\* The user branch of the loop of convertMessages.
KiroUser(msg, acc) ==
  LET blocks == IF Has(msg, "content") /\ Has(msg.content, "blocks")
                THEN msg.content.blocks ELSE <<>>
      textParts == SelectSeq(blocks, LAMBDA c : c.type = "text"
                                       \/ (Has(c, "text") /\ c.text # <<>>))
      content == IF Has(msg, "content") /\ Has(msg.content, "str") THEN msg.content.str
                 ELSE Join([i \in 1..Len(textParts) |->
                              IF Has(textParts[i], "text") THEN textParts[i].text
                              ELSE <<>>], <<"NL">>)
      toolResultBlocks == SelectSeq(blocks, LAMBDA c : c.type = "tool_result")
      Blocks(a) ==
        [a EXCEPT !.pendingToolResults =
           @ \o [i \in 1..Len(toolResultBlocks) |->
                   [toolUseId |-> toolResultBlocks[i].tool_use_id,
                    status |-> "success",
                    content |-> <<[text |-> ToolResultText(toolResultBlocks[i])]>>]]]
      Own(a) ==
        IF msg.role = "tool"
        THEN [a EXCEPT !.pendingToolResults =
                Append(@, [toolUseId |-> msg.tool_call_id, status |-> "success",
                           content |-> <<[text |-> IF Has(msg, "content")
                                                      /\ Has(msg.content, "str")
                                                   THEN msg.content.str
                                                   ELSE <<>>]>>])]
        ELSE IF content # <<>>
        THEN [a EXCEPT !.pendingUserContent = Append(@, content)]
        ELSE a
  IN Own(Blocks(acc))

\* toolUses.map(tc => ...): JSON.parse of the arguments string [json |-> v]
\* is v.
KiroToolUses(toolUses) ==
  [i \in 1..Len(toolUses) |->
     LET tc == toolUses[i]
         toolUseId == IF Has(tc, "id") THEN tc.id ELSE "uuid"
     IN IF Has(tc, "function")
        THEN [toolUseId |-> toolUseId, name |-> tc.function.name,
              input |-> IF Has(tc.function, "arguments") THEN tc.function.arguments.json
                        ELSE EmptyObj]
        ELSE [toolUseId |-> toolUseId, name |-> tc.name,
              input |-> IF Has(tc, "input") THEN tc.input ELSE EmptyObj]]

\* The assistant branch of the loop of convertMessages.
KiroAssistant(msg, acc, tools) ==
  LET blocks == IF Has(msg, "content") /\ Has(msg.content, "blocks")
                THEN msg.content.blocks ELSE <<>>
      textBlocks == SelectSeq(blocks, LAMBDA c : c.type = "text")
      textContent ==
        IF Has(msg, "content") /\ Has(msg.content, "blocks")
        THEN Trim(Join([i \in 1..Len(textBlocks) |-> textBlocks[i].text], <<"NL">>))
        ELSE IF Has(msg, "content") /\ Has(msg.content, "str")
        THEN Trim(msg.content.str)
        ELSE <<>>
      toolUses == IF Has(msg, "tool_calls") /\ msg.tool_calls # <<>>
                  THEN msg.tool_calls
                  ELSE SelectSeq(blocks, LAMBDA c : c.type = "tool_use")
      Text(a) ==
        IF textContent # <<>>
        THEN [a EXCEPT !.pendingAssistantContent = Append(@, textContent)]
        ELSE a
      Attach(a) ==
        IF a.history # <<>> /\ Has(Last(a.history), "assistantResponseMessage")
        THEN [a EXCEPT !.history[Len(a.history)].assistantResponseMessage =
                With(@, "toolUses", KiroToolUses(toolUses)),
                       !.currentRole = ""]
        ELSE [a EXCEPT !.currentRole = ""]
      Uses(a) ==
        IF toolUses # <<>> THEN Attach(flushPending(a, tools)) ELSE a
  IN Uses(Text(acc))

RECURSIVE KiroLoop(_, _, _)
\* for (let i = 0; i < messages.length; i++)
KiroLoop(msgs, acc, tools) ==
  IF msgs = <<>> THEN acc
  ELSE LET msg == Head(msgs)
           role == IF msg.role \in {"system", "tool"} THEN "user" ELSE msg.role
           Flushed(a) ==
             IF role # a.currentRole /\ a.currentRole # ""
             THEN flushPending(a, tools) ELSE a
           Entered(a) == [a EXCEPT !.currentRole = role]
           Branch(a) ==
             IF role = "user" THEN KiroUser(msg, a)
             ELSE IF role = "assistant" THEN KiroAssistant(msg, a, tools)
             ELSE a
       IN KiroLoop(Tail(msgs), Branch(Entered(Flushed(acc))), tools)

\* item.userInputMessage?.userInputMessageContext?.tools
HasTools(item) ==
  /\ Has(item, "userInputMessage")
  /\ Has(item.userInputMessage, "userInputMessageContext")
  /\ Has(item.userInputMessage.userInputMessageContext, "tools")

\* currentMessage.userInputMessage.userInputMessageContext.tools = tools
SetTools(item, specs) ==
  [item EXCEPT !.userInputMessage =
     With(@, "userInputMessageContext",
          With(IF Has(@, "userInputMessageContext") THEN @.userInputMessageContext
               ELSE EmptyObj, "tools", specs))]

\* The body of history.forEach(item => ...).
CleanItem(item, model) ==
  IF ~Has(item, "userInputMessage") THEN item
  ELSE LET NoTools(u) ==
             IF Has(u, "userInputMessageContext")
                /\ Has(u.userInputMessageContext, "tools")
             THEN [u EXCEPT !.userInputMessageContext = Without(@, {"tools"})]
             ELSE u
           NoEmpty(u) ==
             IF Has(u, "userInputMessageContext")
                /\ DOMAIN u.userInputMessageContext = {}
             THEN Without(u, {"userInputMessageContext"})
             ELSE u
           Model(u) == IF u.modelId = <<>> THEN [u EXCEPT !.modelId = model] ELSE u
       IN [userInputMessage |-> Model(NoEmpty(NoTools(item.userInputMessage)))]

\* convertMessages(messages, tools, model): [history, currentMessage], the
\* latter <<>> for null.
convertMessages(msgs, tools, model) ==
  LET Remaining(a) == IF a.currentRole # "" THEN flushPending(a, tools) ELSE a
      \* history.pop(): currentMessage is no longer an entry of history
      Popped(a) ==
        IF a.history # <<>> /\ Has(Last(a.history), "userInputMessage")
        THEN [history |-> Front(a.history), currentRef |-> 0,
              current |-> <<Last(a.history)>>]
        ELSE [history |-> a.history, currentRef |-> a.currentRef,
              current |-> IF a.currentRef = 0 THEN <<>>
                          ELSE <<a.history[a.currentRef]>>]
      Copied(p) ==
        IF p.history # <<>> /\ HasTools(p.history[1])
           /\ p.current # <<>> /\ ~HasTools(p.current[1])
        THEN LET specs == p.history[1].userInputMessage.userInputMessageContext.tools
             IN [p EXCEPT !.current = <<SetTools(p.current[1], specs)>>,
                          !.history = IF p.currentRef = 0 THEN @
                                      ELSE [@ EXCEPT ![p.currentRef] =
                                              SetTools(@, specs)]]
        ELSE p
      Cleaned(p) ==
        LET history == [i \in 1..Len(p.history) |-> CleanItem(p.history[i], model)]
        IN [history |-> history,
            currentMessage |-> IF p.currentRef = 0 THEN p.current
                               ELSE <<history[p.currentRef]>>]
  IN Cleaned(Copied(Popped(Remaining(
       KiroLoop(msgs, [history |-> <<>>, currentRef |-> 0,
                       pendingUserContent |-> <<>>,
                       pendingAssistantContent |-> <<>>,
                       pendingToolResults |-> <<>>, currentRole |-> ""],
                tools)))))

\* buildKiroPayload(model, body, stream, credentials), credentials without
\* a profileArn; the timestamp and the conversation id are tokens.
buildKiroPayload(model, request) ==
  LET msgs == IF Has(request, "messages") THEN request.messages ELSE <<>>
      tools == IF Has(request, "tools") THEN request.tools ELSE <<>>
      converted == convertMessages(msgs, tools, model)
      current == converted.currentMessage
      finalContent == <<"[Context: Current time is ", "now", "]", "NL", "NL">>
                        \o (IF current # <<>> THEN current[1].userInputMessage.content
                            ELSE <<>>)
      base == [content |-> finalContent, modelId |-> model, origin |-> "AI_EDITOR"]
      config == [maxTokens |-> 32000]
      Temperature(c) ==
        IF Has(request, "temperature") THEN With(c, "temperature", request.temperature)
        ELSE c
      TopP(c) == IF Has(request, "top_p") THEN With(c, "topP", request.top_p) ELSE c
  IN [conversationState |->
        [chatTriggerType |-> "MANUAL", conversationId |-> "uuid",
         currentMessage |->
           [userInputMessage |->
              IF current # <<>>
                 /\ Has(current[1].userInputMessage, "userInputMessageContext")
              THEN With(base, "userInputMessageContext",
                        current[1].userInputMessage.userInputMessageContext)
              ELSE base],
         history |-> converted.history],
      inferenceConfig |-> TopP(Temperature(config))]

\* ------------------------------------- Antigravity requests and the MITM
\*
\* An id made by randomUUID() and the clock is a number no earlier call
\* gave: the makers take the count of the ids made so far.  An HTTP request
\* is [url, headers, body]: the url a sequence of tokens, the headers a
\* record, the body [json |-> value] (JSON.stringify) or [text |-> ...]
\* (bytes that are not JSON).

\* config/constants.js
INTERNAL_REQUEST_HEADER == [name |-> "x-request-source", value |-> "local"]

ANTIGRAVITY_HEADERS ==
  [k \in {"X-Client-Name", "X-Client-Version", "x-goog-api-client"} |->
     CASE k = "X-Client-Name" -> "antigravity"
       [] k = "X-Client-Version" -> "1.107.0"
       [] k = "x-goog-api-client" -> "gl-node/18.18.2 fire/0.8.6 grpc/1.10.x"]

\* deriveSessionId(connectionId) on the Map store, count ids made so far:
\* [id, store, count].
deriveSessionId(connectionId, store, count) ==
  IF connectionId = ""
  THEN [id |-> count + 1, store |-> store, count |-> count + 1]
  ELSE IF MapHas(store, connectionId)
  THEN [id |-> MapGet(store, connectionId), store |-> store, count |-> count]
  ELSE [id |-> count + 1, store |-> MapSet(store, connectionId, count + 1),
        count |-> count + 1]

\* wrapInCloudCodeEnvelope(model, geminiCLI, credentials, true): [envelope,
\* count].
wrapInCloudCodeEnvelope(model, geminiCLI, credentials, count) ==
  LET request == [sessionId |-> count + 1,
                  systemInstruction |-> [role |-> "user",
                                         parts |-> <<[text |-> <<"default">>]>>]]
      Contents(r) ==
        IF Has(geminiCLI, "contents") THEN With(r, "contents", geminiCLI.contents)
        ELSE r
      Tools(r) ==
        IF Has(geminiCLI, "tools") /\ geminiCLI.tools # <<>>
        THEN With(With(r, "tools", geminiCLI.tools), "toolConfig",
                  [functionCallingConfig |-> [mode |-> "VALIDATED"]])
        ELSE r
  IN [envelope |-> [project |-> IF Has(credentials, "projectId")
                                THEN credentials.projectId ELSE "generated",
                    model |-> model, userAgent |-> "antigravity",
                    requestId |-> "agent-uuid", requestType |-> "agent",
                    request |-> Tools(Contents(request))],
      count |-> count + 1]

\* The contents of transformRequest: a content with a functionResponse part
\* gets the role "user"; thought-only parts are stripped.
FixContents(contents) ==
  [i \in 1..Len(contents) |->
     LET c == contents[i]
         parts == IF Has(c, "parts") THEN c.parts ELSE <<>>
         role == IF \E j \in 1..Len(parts) : Has(parts[j], "functionResponse")
                 THEN "user" ELSE c.role
         kept == SelectSeq(parts, LAMBDA p :
                   /\ ~(Has(p, "thought") /\ ~Has(p, "functionCall"))
                   /\ ~(Has(p, "thoughtSignature") /\ ~Has(p, "functionCall")
                        /\ ~Has(p, "text")))
     IN IF Has(c, "parts") /\ (role # c.role \/ Len(kept) # Len(parts))
        THEN [c EXCEPT !.role = role, !.parts = kept]
        ELSE c]

\* AntigravityExecutor.transformRequest(model, body, stream, credentials):
\* [body, store, count].
transformRequest(model, body, credentials, store, count) ==
  LET request == IF Has(body, "request") THEN body.request ELSE EmptyObj
      connectionId == IF Has(credentials, "email") THEN credentials.email
                      ELSE IF Has(credentials, "connectionId")
                      THEN credentials.connectionId ELSE ""
      session == IF Has(request, "sessionId")
                 THEN [id |-> request.sessionId, store |-> store, count |-> count]
                 ELSE deriveSessionId(connectionId, store, count)
      Contents(r) ==
        IF Has(r, "contents") THEN [r EXCEPT !.contents = FixContents(@)] ELSE r
      Config(r) ==
        IF Has(r, "tools") /\ r.tools # <<>>
        THEN With(r, "toolConfig", [functionCallingConfig |-> [mode |-> "VALIDATED"]])
        ELSE r
      transformedRequest ==
        With(Config(Contents(Without(request, {"safetySettings"}))),
             "sessionId", session.id)
      Outer(b) ==
        With(With(With(With(With(With(b, "project",
          IF Has(credentials, "projectId") THEN credentials.projectId
          ELSE "generated"),
          "model", model), "userAgent", "antigravity"), "requestType", "agent"),
          "requestId", "agent-uuid"), "request", transformedRequest)
  IN [body |-> Outer(body), store |-> session.store, count |-> session.count]

\* AntigravityExecutor.buildUrl(model, stream, urlIndex), one base URL.
buildUrl(stream) ==
  <<"https://daily-cloudcode-pa.googleapis.com", "/v1internal">>
    \o (IF stream THEN <<":streamGenerateContent", "?alt=sse">>
        ELSE <<":generateContent">>)

\* A buildHeaders without the internal request header.  C39 does not hold
\* for it.
buildHeadersUnmarked(credentials, stream, sessionId) ==
  LET fixed == [k \in {"Content-Type", "Authorization", "User-Agent"} |->
                  CASE k = "Content-Type" -> "application/json"
                    [] k = "Authorization" -> credentials.accessToken
                    [] k = "User-Agent" -> "antigravity/1.104.0 darwin/arm64"]
  IN Assign(fixed, ANTIGRAVITY_HEADERS)

\* AntigravityExecutor.buildHeaders(credentials, stream, sessionId),
\* sessionId a number, 0 for none.
buildHeaders(credentials, stream, sessionId) ==
  LET fixed == [k \in {"Content-Type", "Authorization", "User-Agent",
                      INTERNAL_REQUEST_HEADER.name} |->
                  CASE k = "Content-Type" -> "application/json"
                    [] k = "Authorization" -> credentials.accessToken
                    [] k = "User-Agent" -> "antigravity/1.104.0 darwin/arm64"
                    [] k = INTERNAL_REQUEST_HEADER.name -> INTERNAL_REQUEST_HEADER.value]
      Session(h) ==
        IF sessionId # 0 THEN With(h, "X-Machine-Session-Id", ToString(sessionId))
        ELSE h
      Accept(h) == IF stream THEN With(h, "Accept", "text/event-stream") ELSE h
  IN Accept(Session(Assign(fixed, ANTIGRAVITY_HEADERS)))

\* mitm/server.js
MITM_REQUEST_HEADER == [name |-> "x-request-source", value |-> "local"]

CHAT_URL_PATTERNS == <<":generateContent", ":streamGenerateContent">>

\* extractModel(body): the model, <<>> for null.
extractModel(body) ==
  IF Has(body, "json") /\ Has(body.json, "model") /\ body.json.model # ""
  THEN <<body.json.model>> ELSE <<>>

\* getMappedModel(model), db the parsed db.json or <<>> when it cannot be
\* read: the alias, <<>> for null.
getMappedModel(model, db) ==
  IF model = <<>> \/ db = <<>> THEN <<>>
  ELSE IF Has(db[1], "mitmAlias") /\ Has(db[1].mitmAlias, "antigravity")
          /\ Has(db[1].mitmAlias.antigravity, model[1])
          /\ db[1].mitmAlias.antigravity[model[1]] # ""
  THEN <<db[1].mitmAlias.antigravity[model[1]]>>
  ELSE <<>>

\* The handler of https.createServer: the calls it makes to passthrough
\* and intercept, [fn, mappedModel].
handler(req, db) ==
  IF Has(req.headers, MITM_REQUEST_HEADER.name)
     /\ req.headers[MITM_REQUEST_HEADER.name] = MITM_REQUEST_HEADER.value
  THEN <<[fn |-> "passthrough", mappedModel |-> <<>>]>>
  ELSE LET isChatRequest ==
             \E i \in 1..Len(CHAT_URL_PATTERNS) :
               Contains(req.url, <<CHAT_URL_PATTERNS[i]>>)
           mappedModel == getMappedModel(extractModel(req.body), db)
       IN IF ~isChatRequest
          THEN <<[fn |-> "passthrough", mappedModel |-> <<>>]>>
          ELSE IF mappedModel = <<>>
          THEN <<[fn |-> "passthrough", mappedModel |-> <<>>]>>
          ELSE <<[fn |-> "intercept", mappedModel |-> mappedModel]>>

\* ------------------------------------------------------------- the state

VARIABLES
  options,        \* per stream: the options createSSEStream was called with
  anyCut,         \* whether the network cuts the upstream bytes at any offset
  phase,          \* per stream: "idle" (not created), "open", "closed" (flushed),
                  \*   "errored" (transform has thrown)
  upstream,       \* per stream: the upstream bytes not yet delivered
  received,       \* per stream: the upstream bytes delivered to transform
  splitChar,      \* per stream: a chunk has ended inside a multi-byte character
  splitPrefix,    \* per stream: a chunk has ended inside the "data:" of a line
  sharedDecoder,  \* the module-level TextDecoder: its incomplete sequence
  buffer,         \* per stream: createSSEStream's buffer
  usage,          \* per stream: createSSEStream's usage (passthrough mode)
  state,          \* per stream: the StreamingState
  enqueued,       \* per stream: the records given to controller.enqueue
  handed,         \* per stream: the parsed chunks given to translateResponse
  sink            \* per stream: the calls into usageDb.js

\* Schema cleaning.
VARIABLES
  parameters,     \* the schema of a tool's parameters, <<>> when none is given
  cleaned         \* the results of the successive cleanings of parameters

schemaVars == <<parameters, cleaned>>

\* Finish reasons.
VARIABLES
  conversions     \* the calls of the two reason mappings: [fn, reason, result]

reasonVars == <<conversions>>

\* Request translation.
VARIABLES
  body,           \* the Claude request body, <<>> when there is none
  messages        \* result.messages of claudeToOpenAIRequest, once converted

requestVars == <<body, messages>>

\* Session ids.
VARIABLES
  runtimeSessionStore,  \* the Map connectionId -> sessionId
  generated,            \* the number of ids generateBinaryStyleId has made
  derived               \* the deriveSessionId calls so far: [connectionId, id]

sessionVars == <<runtimeSessionStore, generated, derived>>

\* Cursor auto-import.
VARIABLES
  osPlatform,     \* process.platform
  readablePaths,  \* the paths access(path, R_OK) accepts
  opens,          \* whether new Database(dbPath) succeeds
  reads,          \* whether the queries on the opened database succeed
  itemTable,      \* the rows [key, value] of itemTable, in SQLite's order
  imported        \* what GET did, once it has been called

importVars == <<osPlatform, readablePaths, opens, reads, itemTable, imported>>

\* The Responses-API translators, called chunk by chunk.
VARIABLES
  direction,      \* "toResponses" or "toChat": the translator in use
  translatorState,  \* its state object
  given,          \* the chunks it was called with, in order
  emitted,        \* everything it returned, in order
  flushed         \* whether the final call with null was made

responsesVars == <<direction, translatorState, given, emitted, flushed>>

\* AntigravityExecutor.execute, one call.
VARIABLES
  fallbackCount,       \* this.getFallbackCount(): the number of base URLs
  signalAborted,       \* signal.aborted: the caller has cancelled
  awaiting,            \* "idle" (not called), "fetch", "timer", "none" (over)
  urlIndex,            \* the loop variable
  retryAttemptsByUrl,  \* the automatic retries made, per URL
  lastError,           \* the last error caught, <<>> when none
  lastStatus,          \* the last status that made the loop go on
  fetched,             \* the fetch calls: [urlIndex, signalAborted, outcome]
  executed             \* what execute returned or threw, once it is over

executorVars == <<fallbackCount, signalAborted, awaiting, urlIndex,
                  retryAttemptsByUrl, lastError, lastStatus, fetched, executed>>

streamVars == <<options, anyCut, phase, upstream, received, splitChar, splitPrefix,
                sharedDecoder, buffer, usage, state, enqueued, handed, sink>>

\* The Kiro request translator.
VARIABLES
  kiroRequest,    \* the OpenAI request body, <<>> when there is none
  kiroPayload     \* what buildKiroPayload returned, once it has been called

kiroVars == <<kiroRequest, kiroPayload>>

\* Antigravity requests and the MITM server in front of the upstream host.
VARIABLES
  mitmAlias,      \* db.json as the MITM server reads it, <<>> when unreadable
  sent,           \* the requests AntigravityExecutor has issued, in order
  arrived,        \* the request the MITM server has received, <<>> when none
  handled         \* what the MITM server did with each request it received

antigravityVars == <<mitmAlias, sent, arrived, handled>>

\* The groups declared after the executor's.
laterVars == <<kiroVars, antigravityVars>>

vars == <<streamVars, schemaVars, reasonVars, requestVars, sessionVars,
          importVars, responsesVars, executorVars, laterVars>>

\* The parts of the program other than the SSE streams.
others == <<schemaVars, reasonVars, requestVars, sessionVars, importVars,
           responsesVars, executorVars, laterVars>>

SchemaIdle == parameters = <<>> /\ cleaned = <<>>

ReasonsIdle == conversions = <<>>

RequestIdle == body = <<>> /\ messages = <<>>

\* The session store of a process that has just started.
SessionIdle == runtimeSessionStore = <<>> /\ generated = 0 /\ derived = <<>>

ImportIdle ==
  /\ osPlatform = "linux" /\ readablePaths = {} /\ opens = FALSE
  /\ reads = FALSE /\ itemTable = <<>> /\ imported = <<>>

ResponsesIdle ==
  /\ direction = "toChat" /\ translatorState = InitChatState
  /\ given = <<>> /\ emitted = <<>> /\ flushed = FALSE

ExecutorIdle ==
  /\ fallbackCount = 1 /\ signalAborted = FALSE /\ awaiting = "idle"
  /\ urlIndex = 0 /\ retryAttemptsByUrl = <<>> /\ lastError = <<>>
  /\ lastStatus = 0 /\ fetched = <<>> /\ executed = <<>>

\* Every part at rest except the named one.
KiroIdle == kiroRequest = <<>> /\ kiroPayload = <<>>

AntigravityIdle ==
  mitmAlias = <<>> /\ sent = <<>> /\ arrived = <<>> /\ handled = <<>>

IdleExcept(part) ==
  /\ part = "schema" \/ SchemaIdle
  /\ part = "reasons" \/ ReasonsIdle
  /\ part = "request" \/ RequestIdle
  /\ part = "session" \/ SessionIdle
  /\ part = "import" \/ ImportIdle
  /\ part = "responses" \/ ResponsesIdle
  /\ part = "executor" \/ ExecutorIdle
  /\ part = "kiro" \/ KiroIdle
  /\ part = "antigravity" \/ AntigravityIdle

Pack(s) ==
  [buffer |-> buffer[s], usage |-> usage[s], state |-> state[s],
   enqueued |-> enqueued[s], handed |-> handed[s], sink |-> sink[s],
   raised |-> FALSE]

Unpack(s, strm) ==
  /\ buffer' = [buffer EXCEPT ![s] = strm.buffer]
  /\ usage' = [usage EXCEPT ![s] = strm.usage]
  /\ state' = [state EXCEPT ![s] = strm.state]
  /\ enqueued' = [enqueued EXCEPT ![s] = strm.enqueued]
  /\ handed' = [handed EXCEPT ![s] = strm.handed]
  /\ sink' = [sink EXCEPT ![s] = strm.sink]

\* The sizes the next chunk of bytes may have: any when anyCut, and
\* otherwise at most MaxCut, or up to a line end, or all that is left.
CutSizes(bytes) ==
  {k \in 1..Len(bytes) :
     anyCut \/ k <= MaxCut \/ k = Len(bytes) \/ bytes[k] = "NL"}

\* The upstream delivers the next k bytes of stream s as one chunk.  A
\* transform that throws errors the stream: no transform and no flush follow.
Transform(s) ==
  /\ phase[s] = "open"
  /\ upstream[s] # <<>>
  /\ \E k \in CutSizes(upstream[s]) :
       LET chunk == SubSeq(upstream[s], 1, k)
           r == TransformChunk(options[s], sharedDecoder, Pack(s), chunk)
       IN /\ sharedDecoder' = r.decoder
          /\ Unpack(s, r.strm)
          /\ upstream' = [upstream EXCEPT ![s] = SubSeq(@, k + 1, Len(@))]
          /\ received' = [received EXCEPT ![s] = @ \o chunk]
          /\ splitChar' = [splitChar EXCEPT ![s] = @ \/ IsLead(chunk[k])]
          /\ splitPrefix' = [splitPrefix EXCEPT ![s] =
                               @ \/ r.strm.buffer \in {SubSeq(DataPrefix, 1, n) : n \in 1..4}]
          /\ phase' = [phase EXCEPT ![s] = IF r.strm.raised THEN "errored" ELSE @]
  /\ UNCHANGED <<options, anyCut, others>>

\* The upstream of stream s has ended.
Flush(s) ==
  /\ phase[s] = "open"
  /\ upstream[s] = <<>>
  /\ LET r == FlushStream(options[s], sharedDecoder, Pack(s))
     IN /\ sharedDecoder' = r.decoder
        /\ Unpack(s, r.strm)
  /\ phase' = [phase EXCEPT ![s] = "closed"]
  /\ UNCHANGED <<options, anyCut, upstream, received, splitChar, splitPrefix, others>>

Next == \E s \in Streams : Transform(s) \/ Flush(s)

\* ------------------------------------------------------ upstream inputs

OpenAIToClaude ==
  [mode |-> "translate", targetFormat |-> "openai", sourceFormat |-> "claude",
   toolNameMap |-> <<>>]

ClaudeToOpenAI ==
  [mode |-> "translate", targetFormat |-> "claude", sourceFormat |-> "openai",
   toolNameMap |-> <<>>]

Passthrough ==
  [mode |-> "passthrough", targetFormat |-> "", sourceFormat |-> "",
   toolNameMap |-> <<>>]

\* "data:{k}"
LineOf(k) == DataPrefix \o <<"{", k, "}">>

\* "data: [DONE]"
DoneLine == DataPrefix \o <<" ">> \o DoneText

\* "data:{c": a document cut short.
BadLine == DataPrefix \o <<"{", "c">>

\* "data: {(U+00E9)}", as bytes.
TextLine == DataPrefix \o <<" ", "{", "xC3", "xA9", "}">>

\* Every line followed by a newline.
Terminated(lines) == Flatten([i \in 1..Len(lines) |-> lines[i] \o <<"NL">>])

\* The same without the last newline: the last line arrives unterminated.
Unterminated(lines) == Front(Terminated(lines))

\* The sequences of at most MaxLines lines drawn from T.
LineSeqs(T) == UNION {[1..n -> T] : n \in 0..MaxLines}

\* The streams of live start open, each with its options and upstream
\* bytes; the others are never created ("idle").
Start(live, opts, bytes, cut) ==
  /\ IdleExcept("streams")
  /\ options = opts
  /\ anyCut = cut
  /\ phase = [s \in Streams |-> IF s \in live THEN "open" ELSE "idle"]
  /\ upstream = bytes
  /\ received = [s \in Streams |-> <<>>]
  /\ splitChar = [s \in Streams |-> FALSE]
  /\ splitPrefix = [s \in Streams |-> FALSE]
  /\ sharedDecoder = <<>>
  /\ buffer = [s \in Streams |-> NewStream(opts[s]).buffer]
  /\ usage = [s \in Streams |-> NewStream(opts[s]).usage]
  /\ state = [s \in Streams |-> NewStream(opts[s]).state]
  /\ enqueued = [s \in Streams |-> <<>>]
  /\ handed = [s \in Streams |-> <<>>]
  /\ sink = [s \in Streams |-> <<>>]

\* One request: stream 1 with the given options and upstream bytes.
OneStream(opts, bytes, cut) ==
  Start({1}, [s \in Streams |-> opts],
        [s \in Streams |-> IF s = 1 THEN bytes ELSE <<>>], cut)

O2CLines ==
  {LineOf(k) : k \in {"c", "e", "C", "r", "t", "u", "f"}} \cup {DoneLine}

C2OLines == {LineOf(k) : k \in {"m", "x", "w", "D", "S"}}

\* Translate mode, every line newline-terminated, the bytes cut in small
\* fragments or at line ends.
Init ==
  \/ \E ls \in LineSeqs(O2CLines) : OneStream(OpenAIToClaude, Terminated(ls), FALSE)
  \/ \E ls \in LineSeqs(C2OLines) : OneStream(ClaudeToOpenAI, Terminated(ls), FALSE)

Spec == Init /\ [][Next]_vars

UsageLines == {LineOf(k) : k \in {"U", "V", "c"}} \cup {BadLine, DoneLine}

\* Usage accounting: translate or passthrough mode, the last line with or
\* without its newline.
InitUsage ==
  \E opts \in {OpenAIToClaude, Passthrough} : \E ls \in LineSeqs(UsageLines) :
    \/ OneStream(opts, Terminated(ls), FALSE)
    \/ OneStream(opts, Unterminated(ls), FALSE)

SpecUsage == InitUsage /\ [][Next]_vars

FramingLines == {LineOf("c"), TextLine, BadLine, <<>>}

\* Framing: translate mode, the bytes cut at any offset.
InitFraming ==
  \E ls \in LineSeqs(FramingLines) :
    \/ OneStream(OpenAIToClaude, Terminated(ls), TRUE)
    \/ OneStream(OpenAIToClaude, Unterminated(ls), TRUE)

SpecFraming == InitFraming /\ [][Next]_vars

SharedInputs == {Terminated(<<TextLine>>), Terminated(<<LineOf("c")>>), <<>>}

\* Two requests at once, their transform and flush calls interleaved.
InitShared ==
  \E b1 \in SharedInputs : \E b2 \in SharedInputs :
    Start(Streams, [s \in Streams |-> OpenAIToClaude],
          [s \in Streams |-> IF s = 1 THEN b1 ELSE b2], TRUE)

SpecShared == InitShared /\ [][Next]_vars

\* The toolNameMap built at request time when tool "f" was sent upstream as
\* "proxy_f": sent name -> original name.
RenamedF == <<[key |-> <<CLAUDE_OAUTH_TOOL_PREFIX, "f">>, val |-> <<"f">>]>>

ToolMaps == {<<>>, RenamedF}

O2CToolLines == {LineOf(k) : k \in {"t", "u", "g", "f"}}

C2OToolLines == {LineOf(k) : k \in {"m", "w", "W", "j", "T"}}

\* Tool calls: translate mode in both directions, with and without a
\* request-time renaming.
InitTools ==
  \E map \in ToolMaps :
    \/ \E ls \in LineSeqs(O2CToolLines) :
         OneStream([OpenAIToClaude EXCEPT !.toolNameMap = map], Terminated(ls), FALSE)
    \/ \E ls \in LineSeqs(C2OToolLines) :
         OneStream([ClaudeToOpenAI EXCEPT !.toolNameMap = map], Terminated(ls), FALSE)

SpecTools == InitTools /\ [][Next]_vars

\* "data:{U}", "data: {U}", "data:  {U}": nothing, one space, two spaces
\* after the colon.
SpacedLine(n) ==
  DataPrefix \o [i \in 1..n |-> " "] \o <<"{", "U", "}">>

\* "event: x"
EventLine == <<"e", "v", "e", "n", "t", ":", " ", "x">>

PassLines == {SpacedLine(n) : n \in 0..2} \cup {EventLine, TextLine, <<>>}

\* Passthrough mode, the bytes cut at any offset, the last line with or
\* without its newline.
InitPassthrough ==
  \E ls \in LineSeqs(PassLines) :
    \/ OneStream(Passthrough, Terminated(ls), TRUE)
    \/ OneStream(Passthrough, Unterminated(ls), TRUE)

SpecPassthrough == InitPassthrough /\ [][Next]_vars

\* No request is streaming.
NoStreams ==
  /\ options = [s \in Streams |-> Passthrough]
  /\ anyCut = FALSE
  /\ phase = [s \in Streams |-> "idle"]
  /\ upstream = [s \in Streams |-> <<>>]
  /\ received = [s \in Streams |-> <<>>]
  /\ splitChar = [s \in Streams |-> FALSE]
  /\ splitPrefix = [s \in Streams |-> FALSE]
  /\ sharedDecoder = <<>>
  /\ buffer = [s \in Streams |-> <<>>]
  /\ usage = [s \in Streams |-> <<>>]
  /\ state = [s \in Streams |-> <<>>]
  /\ enqueued = [s \in Streams |-> <<>>]
  /\ handed = [s \in Streams |-> <<>>]
  /\ sink = [s \in Streams |-> <<>>]

\* ------------------------------------------------------ schema cleaning

\* The longest anyOf / oneOf / allOf list of the catalogue.
MaxBranches == 2

\* The number of times a schema is cleaned in a row.
MaxCleanings == 2

Five == [num |-> 5]

\* Schemas without a combinator of their own.
PlainSchemas ==
  {[type |-> "string"], [type |-> "null"], [type |-> "integer", title |-> "t"],
   [type |-> "object"], [type |-> "object", properties |-> EmptyObj],
   [type |-> "object", properties |-> [x |-> [const |-> Five]],
    required |-> <<"x", "y">>],
   [type |-> "object", properties |-> [title |-> [type |-> "string"]],
    required |-> <<"title">>],
   [type |-> "array", items |-> [type |-> "object"]],
   [typeList |-> <<"null", "object">>], [typeList |-> <<"null">>],
   [properties |-> [x |-> [typeList |-> <<"string", "null">>]]],
   [const |-> [str |-> "a"], enum |-> <<Five>>], [enum |-> <<Five, [str |-> "a"]>>],
   EmptyObj}

Branches == UNION {[1..n -> PlainSchemas] : n \in 1..MaxBranches}

\* The schemas the combinators are put on.
BaseSchemas ==
  {EmptyObj, [type |-> "object", properties |-> [x |-> [const |-> Five]]],
   [type |-> "string", required |-> <<"x">>]}

Combined ==
  {With(base, key, list) :
     base \in BaseSchemas, key \in {"anyOf", "oneOf", "allOf"}, list \in Branches}

\* Schemas with a combinator below the root, and with two at the root.
Nested ==
  {[type |-> "object", properties |-> [x |-> c]] :
     c \in {With(EmptyObj, key, <<a, [type |-> "array"]>>) :
              key \in {"anyOf", "allOf"}, a \in PlainSchemas}}
  \cup {[anyOf |-> <<a>>, oneOf |-> <<b>>] : a, b \in PlainSchemas}
  \cup {[anyOf |-> <<[anyOf |-> <<a>>, type |-> "string"]>>] : a \in PlainSchemas}

Schemas == PlainSchemas \cup Combined \cup Nested

InitSchema ==
  /\ NoStreams
  /\ IdleExcept("schema")
  /\ parameters \in Schemas
  /\ cleaned = <<>>

\* The tool's parameters are cleaned; a further cleaning takes the result
\* of the one before (the source cleans the object in place).
Clean ==
  /\ parameters # <<>> \/ cleaned # <<>>
  /\ Len(cleaned) < MaxCleanings
  /\ cleaned' = Append(cleaned,
                  cleanJSONSchemaForAntigravity(
                    IF cleaned = <<>> THEN parameters ELSE Last(cleaned)))
  /\ UNCHANGED <<parameters, streamVars, reasonVars, requestVars, sessionVars, importVars, responsesVars,
                 executorVars, laterVars>>

NextSchema == Clean

SpecSchema == InitSchema /\ [][NextSchema]_vars

\* ------------------------------------------------------ finish reasons

\* The number of reasons mapped in one run.
MaxConversions == 2

\* The reasons an upstream may send: those of both formats, others, none
\* ("" for null).
Reasons ==
  {"stop", "length", "tool_calls", "content_filter", "function_call",
   "end_turn", "max_tokens", "tool_use", "stop_sequence", "pause_turn",
   "refusal", ""}

InitReasons ==
  /\ NoStreams
  /\ IdleExcept("reasons")
  /\ conversions = <<>>

\* convertFinishReason(reason) is called.
ConvertFinish ==
  /\ Len(conversions) < MaxConversions
  /\ \E reason \in Reasons :
       conversions' = Append(conversions,
                        [fn |-> "convertFinishReason", reason |-> reason,
                         result |-> convertFinishReason(reason)])
  /\ UNCHANGED <<streamVars, schemaVars, requestVars, sessionVars, importVars, responsesVars,
                 executorVars, laterVars>>

\* convertStopReason(reason) is called.
ConvertStop ==
  /\ Len(conversions) < MaxConversions
  /\ \E reason \in Reasons :
       conversions' = Append(conversions,
                        [fn |-> "convertStopReason", reason |-> reason,
                         result |-> convertStopReason(reason)])
  /\ UNCHANGED <<streamVars, schemaVars, requestVars, sessionVars, importVars, responsesVars,
                 executorVars, laterVars>>

NextReasons == ConvertFinish \/ ConvertStop

SpecReasons == InitReasons /\ [][NextReasons]_vars

\* --------------------------------------------------- request translation

\* The longest conversation of the catalogue.
MaxMessages == 3

ToolUse(id) == [type |-> "tool_use", id |-> id, name |-> "f"]

ToolResult(id) == [type |-> "tool_result", tool_use_id |-> id, content |-> [str |-> "ok"]]

TextBlock == [type |-> "text", text |-> "hi"]

\* The Claude messages of the catalogue: text, tool calls "a" and "b" of
\* the assistant, and the user's results for them (all, some, with text).
ClaudeMessages ==
  {[role |-> "user", content |-> [str |-> "hi"]],
   [role |-> "assistant", content |-> [blocks |-> <<TextBlock>>]],
   [role |-> "assistant", content |-> [blocks |-> <<ToolUse("a")>>]],
   [role |-> "assistant", content |-> [blocks |-> <<TextBlock, ToolUse("a"), ToolUse("b")>>]],
   [role |-> "user", content |-> [blocks |-> <<ToolResult("a")>>]],
   [role |-> "user", content |-> [blocks |-> <<ToolResult("b")>>]],
   [role |-> "user", content |-> [blocks |-> <<ToolResult("b"), ToolResult("a")>>]],
   [role |-> "user", content |-> [blocks |-> <<ToolResult("a"), TextBlock>>]],
   [role |-> "user", content |-> [blocks |-> <<[type |-> "tool_result", tool_use_id |-> "c"]>>]]}

Bodies ==
  {[system |-> sys, messages |-> ms] :
     sys \in {"", "be brief"},
     ms \in UNION {[1..n -> ClaudeMessages] : n \in 0..MaxMessages}}

InitRequest ==
  /\ NoStreams
  /\ IdleExcept("request")
  /\ body \in Bodies
  /\ messages = <<>>

\* The request is translated.
TranslateRequest ==
  /\ body # <<>>
  /\ messages = <<>>
  /\ messages' = claudeToOpenAIRequest(body)
  /\ UNCHANGED <<body, streamVars, schemaVars, reasonVars, sessionVars, importVars, responsesVars,
                 executorVars, laterVars>>

NextRequest == TranslateRequest

SpecRequest == InitRequest /\ [][NextRequest]_vars

\* ----------------------------------------------------------- session ids

\* The number of session store operations in one run.
MaxCalls == 4

\* The connection identifiers: two accounts, and none ("").
ConnectionIds == {"", "a@x", "b@x"}

InitSession ==
  /\ NoStreams
  /\ IdleExcept("session")
  /\ SessionIdle

\* deriveSessionId(connectionId).  generateBinaryStyleId() gives an id no
\* earlier call gave (a random UUID and the clock): the ids are numbered.
DeriveSessionId(connectionId) ==
  /\ Len(derived) < MaxCalls
  /\ LET r == deriveSessionId(connectionId, runtimeSessionStore, generated)
     IN /\ runtimeSessionStore' = r.store
        /\ generated' = r.count
        /\ derived' = Append(derived, [connectionId |-> connectionId, id |-> r.id])
  /\ UNCHANGED <<streamVars, schemaVars, reasonVars, requestVars, importVars,
                 responsesVars, executorVars, laterVars>>

\* clearSessionStore()
ClearSessionStore ==
  /\ runtimeSessionStore # <<>>
  /\ runtimeSessionStore' = <<>>
  /\ UNCHANGED <<generated, derived, streamVars, schemaVars, reasonVars, requestVars, importVars, responsesVars,
                 executorVars, laterVars>>

NextSession ==
  \/ \E connectionId \in ConnectionIds : DeriveSessionId(connectionId)
  \/ ClearSessionStore

SpecSession == InitSession /\ [][NextSession]_vars

\* ---- the Cursor auto-import route alone

MaxRows == 2

Platforms == {"darwin", "linux", "win32", "freebsd"}

\* Keys itemTable may hold: exact ones, ones only the fuzzy query accepts,
\* one the fuzzy query returns that names no credential, and one no query
\* returns.
TableKeys ==
  { <<"cursorAuth/", "accessToken">>, <<"cursorAuth/", "token">>,
    <<"storage.", "service", "MachineId">>,
    <<"cursorAuth/", "someOther", "AccessToken", "Key">>,
    <<"storage.", "some", "MachineId">>,
    <<"cursorAuth/", "refreshToken">>,
    <<"other.", "accessToken">> }

\* Values: two plain texts, a JSON string literal, the JSON literal of "".
TableValues == { <<"t">>, <<"u">>, <<"\"", "t", "\"">>, <<"\"", "\"">> }

TableRows == [key : TableKeys, value : TableValues]

\* itemTable declares key UNIQUE.
Tables ==
  UNION { { table \in [1..n -> TableRows] :
              \A i, j \in 1..n : table[i].key = table[j].key => i = j }
          : n \in 0..MaxRows }

\* The rows matter only where GET comes to read them.
InitImport ==
  /\ NoStreams
  /\ IdleExcept("import")
  /\ osPlatform \in Platforms
  /\ readablePaths \in SUBSET { candidateDbPaths[i] : i \in DOMAIN candidateDbPaths }
  /\ opens \in BOOLEAN
  /\ reads \in BOOLEAN
  /\ itemTable \in Tables
  /\ itemTable # <<>> =>
       /\ opens /\ reads
       /\ osPlatform # "freebsd"
       /\ osPlatform = "darwin" => readablePaths # {}
  /\ imported = <<>>

\* One request to GET /api/oauth/cursor/auto-import.
Import ==
  /\ imported = <<>>
  /\ imported' = <<GET(osPlatform, readablePaths, opens, reads, itemTable)>>
  /\ UNCHANGED <<osPlatform, readablePaths, opens, reads, itemTable,
                 streamVars, schemaVars, reasonVars, requestVars, sessionVars,
                 responsesVars, executorVars, laterVars>>

NextImport == Import

SpecImport == InitImport /\ [][NextImport]_vars

\* ---- tool-call arguments, translate mode in both directions

RoutingLines(opts) ==
  IF opts = OpenAIToClaude
  THEN {LineOf(k) : k \in {"c", "t", "u", "v", "g", "G"}}
  ELSE {LineOf(k) : k \in {"m", "w", "W", "j", "J"}}

InitRouting ==
  \E opts \in {OpenAIToClaude, ClaudeToOpenAI} :
    \E ls \in LineSeqs(RoutingLines(opts)) : OneStream(opts, Terminated(ls), FALSE)

SpecRouting == InitRouting /\ [][Next]_vars

\* Events the translator throws on: content, a tool call list holding null,
\* a finish, [DONE]; the last line with or without its newline.
ErrorLines == {LineOf(k) : k \in {"c", "N", "f"}} \cup {DoneLine}

InitErrors ==
  \E ls \in LineSeqs(ErrorLines) :
    \/ OneStream(OpenAIToClaude, Terminated(ls), FALSE)
    \/ OneStream(OpenAIToClaude, Unterminated(ls), FALSE)

SpecErrors == InitErrors /\ [][Next]_vars

\* ---- the identity of the stream, translate mode in both directions

\* Chunks with an id and a model of their own, and chunks without.
PrimingLines(opts) ==
  IF opts = OpenAIToClaude
  THEN {LineOf(k) : k \in {"i", "I", "c", "f"}}
  ELSE {LineOf(k) : k \in {"m", "M", "x", "S"}}

InitPriming ==
  \E opts \in {OpenAIToClaude, ClaudeToOpenAI} :
    \E ls \in LineSeqs(PrimingLines(opts)) : OneStream(opts, Terminated(ls), FALSE)

SpecPriming == InitPriming /\ [][Next]_vars

\* ---- the Kiro request translator

\* The longest message list of the catalogue.
MaxTurns == 3

KiroModel == <<"kiro-model">>

CallF ==
  [id |-> "call_a",
   function |-> [name |-> <<"f">>, arguments |-> [json |-> EmptyObj]]]

\* The OpenAI messages: user, system and tool messages, a user message
\* that trims to nothing, a user message of blocks with a tool result,
\* assistant messages with text, with tool calls and no text, and of blocks
\* with a tool use.
KiroMessages ==
  { [role |-> "user", content |-> [str |-> <<"a">>]],
    [role |-> "user", content |-> [str |-> <<" ">>]],
    [role |-> "system", content |-> [str |-> <<"s">>]],
    [role |-> "tool", tool_call_id |-> "call_a", content |-> [str |-> <<"r">>]],
    [role |-> "user",
     content |-> [blocks |-> <<[type |-> "text", text |-> <<"c">>],
                               [type |-> "tool_result", tool_use_id |-> "call_a",
                                content |-> [str |-> <<"r">>]]>>]],
    [role |-> "assistant", content |-> [str |-> <<"b">>]],
    [role |-> "assistant", tool_calls |-> <<CallF>>],
    [role |-> "assistant",
     content |-> [blocks |-> <<[type |-> "text", text |-> <<"d">>],
                               [type |-> "tool_use", id |-> "toolu_a",
                                name |-> <<"g">>, input |-> EmptyObj]>>]] }

KiroTools ==
  { <<>>,
    <<[type |-> "function",
       function |-> [name |-> <<"f">>, description |-> <<>>,
                     parameters |-> EmptyObj]]>> }

InitKiro ==
  /\ NoStreams
  /\ IdleExcept("kiro")
  /\ \E n \in 0..MaxTurns : \E msgs \in [1..n -> KiroMessages] :
       \E tools \in KiroTools :
         kiroRequest = [messages |-> msgs, tools |-> tools]
  /\ kiroPayload = <<>>

\* The request is translated for Kiro.
BuildKiroPayload ==
  /\ kiroRequest # <<>> /\ kiroPayload = <<>>
  /\ kiroPayload' = <<buildKiroPayload(KiroModel, kiroRequest)>>
  /\ UNCHANGED <<kiroRequest, streamVars, schemaVars, reasonVars, requestVars,
                 sessionVars, importVars, responsesVars, executorVars,
                 antigravityVars>>

NextKiro == BuildKiroPayload

SpecKiro == InitKiro /\ [][NextKiro]_vars

\* ---- Antigravity requests and the MITM server

\* The number of requests the executor issues in one run.
MaxRequests == 2

\* The number of requests of other clients the MITM server receives.
MaxArrivals == 1

\* Two connections; the first is known by its email or, without one, by
\* its connectionId.
Credentials ==
  { [email |-> "a@x", connectionId |-> "c1", accessToken |-> "tok_a"],
    [email |-> "b@x", connectionId |-> "c2", accessToken |-> "tok_b",
     projectId |-> "proj"],
    [connectionId |-> "c3", accessToken |-> "tok_c"] }

GeminiContents ==
  <<[role |-> "user", parts |-> <<[text |-> <<"a">>]>>],
    [role |-> "model", parts |-> <<[text |-> <<"r">>, thought |-> TRUE],
                                   [functionResponse |-> "result"]>>]>>

\* Where the body given to execute comes from: the OpenAI -> Antigravity
\* request translator, or a client that speaks the Antigravity format, with
\* or without a sessionId of its own.
Origins == {"translated", "native", "nativeWithSession"}

UpstreamModel == "gemini-pro"

\* db.json: unreadable, without aliases, with an alias for the upstream
\* model and an empty one for another.
Databases ==
  { <<>>, <<EmptyObj>>,
    <<[mitmAlias |-> [antigravity |-> [k \in {"gemini-pro", "gemini-flash"} |->
                                         IF k = "gemini-pro" THEN "gpt" ELSE ""]]]>> }

\* The requests of other clients: with and without the internal header, to
\* a chat URL or another, with a model that may have an alias or a body
\* that is not JSON.
ClientRequests ==
  { [url |-> url, headers |-> headers, body |-> payload] :
      url \in { <<"/v1internal", ":generateContent">>,
                <<"/v1internal", ":streamGenerateContent", "?alt=sse">>,
                <<"/v1internal", ":loadCodeAssist">> },
      headers \in { EmptyObj,
                    [k \in {"x-request-source"} |-> "local"],
                    [k \in {"x-request-source"} |-> "remote"] },
      payload \in { [json |-> [model |-> "gemini-pro"]],
                 [json |-> [model |-> "gemini-flash"]],
                 [json |-> [model |-> "unknown"]],
                 [text |-> "garbage"] } }

InitAntigravity ==
  /\ NoStreams
  /\ IdleExcept("antigravity")
  /\ mitmAlias \in Databases
  /\ sent = <<>>
  /\ arrived = <<>>
  /\ handled = <<>>

\* One iteration of the loop of execute up to its fetch: the body is
\* transformed, the headers are built, the request goes out and reaches the
\* MITM server that stands in front of the upstream host.
SendRequest(credentials, origin, stream) ==
  /\ Len(sent) < MaxRequests
  /\ arrived = <<>>
  /\ LET input == IF origin = "translated"
                  THEN wrapInCloudCodeEnvelope(UpstreamModel,
                         [contents |-> GeminiContents], credentials, generated)
                  ELSE [envelope |->
                          [request |->
                             IF origin = "nativeWithSession"
                             THEN [contents |-> GeminiContents,
                                   sessionId |-> 100]
                             ELSE [contents |-> GeminiContents]],
                        count |-> generated]
         transformed == transformRequest(UpstreamModel, input.envelope, credentials,
                                         runtimeSessionStore, input.count)
         request == [url |-> buildUrl(stream),
                     headers |-> buildHeaders(credentials, stream,
                                              transformed.body.request.sessionId),
                     body |-> [json |-> transformed.body]]
     IN /\ sent' = Append(sent, [connection |-> IF Has(credentials, "email")
                                               THEN credentials.email
                                               ELSE credentials.connectionId,
                                 origin |-> origin, request |-> request])
        /\ arrived' = <<[from |-> "router", request |-> request]>>
        /\ runtimeSessionStore' = transformed.store
        /\ generated' = transformed.count
  /\ UNCHANGED <<mitmAlias, handled, derived, streamVars, schemaVars, reasonVars,
                 requestVars, importVars, responsesVars, executorVars, kiroVars>>

\* A request of another client reaches the MITM server.
ClientRequest(request) ==
  /\ arrived = <<>>
  /\ Cardinality({i \in 1..Len(handled) : handled[i].from = "client"}) < MaxArrivals
  /\ arrived' = <<[from |-> "client", request |-> request]>>
  /\ UNCHANGED <<mitmAlias, sent, handled, streamVars, schemaVars, reasonVars,
                 requestVars, sessionVars, importVars, responsesVars, executorVars,
                 kiroVars>>

\* The handler of the MITM server runs for the request it has received.
Handle ==
  /\ arrived # <<>>
  /\ handled' = Append(handled, [from |-> arrived[1].from,
                                 request |-> arrived[1].request,
                                 calls |-> handler(arrived[1].request, mitmAlias)])
  /\ arrived' = <<>>
  /\ UNCHANGED <<mitmAlias, sent, streamVars, schemaVars, reasonVars,
                 requestVars, sessionVars, importVars, responsesVars, executorVars,
                 kiroVars>>

NextAntigravity ==
  \/ \E credentials \in Credentials : \E origin \in Origins :
       \E stream \in BOOLEAN : SendRequest(credentials, origin, stream)
  \/ \E request \in ClientRequests : ClientRequest(request)
  \/ Handle

SpecAntigravity == InitAntigravity /\ [][NextAntigravity]_vars

\* The MITM server with the executor's requests of one connection.
NextMitm ==
  \/ \E stream \in BOOLEAN :
       SendRequest([connectionId |-> "c3", accessToken |-> "tok_c"], "native", stream)
  \/ \E request \in ClientRequests : ClientRequest(request)
  \/ Handle

SpecMitm == InitAntigravity /\ [][NextMitm]_vars

\* ---- the Responses-API translators alone

MaxChunks == 3

\* A chat.completion.chunk whose choices[0].delta is delta.
DeltaChunk(delta) == [choices |-> [delta |-> delta]]

\* The chunks given to openaiToOpenAIResponsesResponse: text, reasoning,
\* inline <think> tags whole and split over two chunks, a tool call, its
\* arguments, arguments for an index no tool call opened, a finish, a chunk
\* without choices.
ChatChunks ==
  { Doc("c"), Doc("r"), Doc("t"), Doc("g"), Doc("f"), Doc("U"),
    DeltaChunk([content |-> <<"p", "<think>", "r", "</think>", "q">>]),
    DeltaChunk([content |-> <<"<think>", "r", "</think>">>]),
    DeltaChunk([content |-> <<"<think>", "r">>]),
    DeltaChunk([content |-> <<"s", "</think>", "q">>]),
    DeltaChunk([tool_calls |->
                  <<[index |-> 1, function |-> [arguments |-> <<"2">>]]>>]) }

\* The events given to openaiResponsesToOpenAIResponse.
ResponsesEvents ==
  { [type |-> "response.output_text.delta", delta |-> <<"H">>],
    [type |-> "response.output_item.added",
     item |-> [type |-> "function_call", call_id |-> "call_a", name |-> <<"f">>]],
    [type |-> "response.function_call_arguments.delta", delta |-> <<"1">>],
    [type |-> "response.output_item.done", item |-> [type |-> "function_call"]],
    [type |-> "response.reasoning_summary_text.delta", delta |-> <<"r">>],
    [type |-> "response.completed"] }

InitResponses ==
  /\ NoStreams
  /\ IdleExcept("responses")
  /\ direction \in {"toResponses", "toChat"}
  /\ translatorState = IF direction = "toResponses" THEN InitResponsesState
                       ELSE InitChatState
  /\ given = <<>>
  /\ emitted = <<>>
  /\ flushed = FALSE

\* One call of the translator: [state, out], out the events or chunks it
\* returned.
Call(dir, chunk, st) ==
  IF dir = "toResponses"
  THEN LET r == openaiToOpenAIResponsesResponse(chunk, st)
       IN [state |-> r.state, out |-> r.events]
  ELSE IF dir = "toChat"
  THEN LET r == openaiResponsesToOpenAIResponse(chunk, st)
       IN [state |-> r.state, out |-> r.results]
  ELSE LET r == geminiToOpenAIResponse(chunk, st)
       IN [state |-> r.state, out |-> r.results]

\* The orchestrator hands one parsed upstream chunk to the translator.
TranslateChunk(chunk) ==
  /\ ~flushed
  /\ Len(given) < MaxChunks
  /\ LET r == Call(direction, chunk, translatorState)
     IN /\ translatorState' = r.state
        /\ emitted' = emitted \o r.out
  /\ given' = Append(given, chunk)
  /\ UNCHANGED <<direction, flushed, streamVars, schemaVars, reasonVars,
                 requestVars, sessionVars, importVars, executorVars, laterVars>>

\* The final call with null, at the end of the stream.
FlushTranslator ==
  /\ ~flushed
  /\ LET r == Call(direction, NullChunk, translatorState)
     IN /\ translatorState' = r.state
        /\ emitted' = emitted \o r.out
  /\ flushed' = TRUE
  /\ UNCHANGED <<direction, given, streamVars, schemaVars, reasonVars,
                 requestVars, sessionVars, importVars, executorVars, laterVars>>

NextResponses ==
  \/ \E chunk \in (IF direction = "toResponses" THEN ChatChunks
                   ELSE ResponsesEvents) : TranslateChunk(chunk)
  \/ FlushTranslator

SpecResponses == InitResponses /\ [][NextResponses]_vars

\* ---- the Gemini translator alone

\* A Gemini response whose first candidate has the given parts.
PartsChunk(parts) == [candidates |-> <<[content |-> [parts |-> parts]]>>]

\* A Gemini response whose first candidate only ends the turn.
FinishedChunk(reason) ==
  [candidates |-> <<[finishReason |-> reason]>>,
   usageMetadata |-> [promptTokenCount |-> 1, thoughtsTokenCount |-> 0,
                      candidatesTokenCount |-> 2, totalTokenCount |-> 3]]

\* The chunks given to geminiToOpenAIResponse: text with and without a
\* response id and model version, the same inside the Antigravity wrapper, a
\* signed thought, a function call, the ends of a turn, a response without
\* candidates.
GeminiChunks ==
  { With(With(PartsChunk(<<[text |-> <<"H">>]>>), "responseId", "resp_1"),
         "modelVersion", "gemini-pro"),
    [response |-> With(With(PartsChunk(<<[text |-> <<"l">>]>>), "responseId", "resp_2"),
                       "modelVersion", "other")],
    PartsChunk(<<[text |-> <<"o">>]>>),
    PartsChunk(<<[text |-> <<"r">>, thought |-> TRUE, thoughtSignature |-> "sig"]>>),
    PartsChunk(<<[functionCall |-> [name |-> <<"f">>]]>>),
    FinishedChunk("STOP"), FinishedChunk("MAX_TOKENS"), FinishedChunk("SAFETY"),
    [usageMetadata |-> [promptTokenCount |-> 1, thoughtsTokenCount |-> 0,
                        candidatesTokenCount |-> 0, totalTokenCount |-> 1]] }

InitGemini ==
  /\ NoStreams
  /\ IdleExcept("responses")
  /\ direction = "fromGemini"
  /\ translatorState = InitGeminiState
  /\ given = <<>>
  /\ emitted = <<>>
  /\ flushed = FALSE

NextGemini ==
  \/ \E chunk \in GeminiChunks : TranslateChunk(chunk)
  \/ FlushTranslator

SpecGemini == InitGemini /\ [][NextGemini]_vars

\* ---- AntigravityExecutor.execute alone
\* One action per stretch of execute between two awaits: the call up to the
\* first fetch, the settling of a fetch up to the next await or the end, and
\* the end of a backoff timer.  The caller's signal may fire at any await.

\* The base URLs configured.
MaxUrls == 2

\* The fetch calls of one run of execute.
MaxFetches == 5

MAX_RETRY_AFTER_MS == 10000

MAX_AUTO_RETRIES == 3

RATE_LIMITED == 429

SERVICE_UNAVAILABLE == 503

\* The statuses the upstream answers with.
Statuses == {200, 401, RATE_LIMITED, 502, SERVICE_UNAVAILABLE}

\* What parseRetryHeaders or parseRetryFromErrorMessage find in a response,
\* in ms: nothing (0), a short delay, a long one.
RetryDelays == {0, 5000, 20000}

\* this.shouldRetry(status, urlIndex): the statuses classified as retryable.
shouldRetry(status, i) == status \in {RATE_LIMITED, 502, SERVICE_UNAVAILABLE, 504}

\* The fetch log with the outcome of the fetch in flight.
Settled(outcome) == [fetched EXCEPT ![Len(fetched)].outcome = outcome]

\* The loop from its test with urlIndex = i up to the await of the fetch, or,
\* the URLs exhausted, the throw after the loop.
Iterate(i, log, error, status, attempts) ==
  /\ urlIndex' = i
  /\ lastError' = error
  /\ lastStatus' = status
  /\ retryAttemptsByUrl' = attempts
  /\ IF i < fallbackCount
     THEN /\ Len(log) < MaxFetches
          /\ fetched' = Append(log, [urlIndex |-> i, signalAborted |-> signalAborted,
                                     outcome |-> "pending"])
          /\ awaiting' = "fetch"
          /\ executed' = executed
     ELSE /\ fetched' = log
          /\ awaiting' = "none"
          /\ executed' = <<[threw |-> IF error # <<>> THEN error[1]
                                      ELSE "AllUrlsFailed"]>>

\* execute({ ..., signal }) up to its first await.
Execute ==
  /\ awaiting = "idle"
  /\ Iterate(0, fetched, <<>>, 0, [i \in 1..fallbackCount |-> 0])
  /\ UNCHANGED <<fallbackCount, signalAborted, streamVars, schemaVars, reasonVars,
                 requestVars, sessionVars, importVars, responsesVars, laterVars>>

\* return { response, url, headers, transformedBody }
Return(status) ==
  /\ executed' = <<[response |-> status, urlIndex |-> urlIndex]>>
  /\ awaiting' = "none"
  /\ fetched' = Settled("response")
  /\ UNCHANGED <<urlIndex, lastError, lastStatus, retryAttemptsByUrl>>

\* await new Promise(resolve => setTimeout(resolve, ...))
Wait(attempts) ==
  /\ awaiting' = "timer"
  /\ retryAttemptsByUrl' = attempts
  /\ fetched' = Settled("response")
  /\ UNCHANGED <<urlIndex, lastError, lastStatus, executed>>

\* The fetch resolves with a response of the given status and retry delay.
Respond(status, retryMs) ==
  /\ awaiting = "fetch"
  /\ ~signalAborted
  /\ LET attempts == retryAttemptsByUrl
         tried == attempts[urlIndex + 1]
         next == Iterate(urlIndex + 1, Settled("response"), lastError, status, attempts)
     IN IF status \in {RATE_LIMITED, SERVICE_UNAVAILABLE}
        THEN IF retryMs # 0 /\ retryMs <= MAX_RETRY_AFTER_MS
             THEN Wait(attempts)
             ELSE IF status = RATE_LIMITED /\ retryMs = 0 /\ tried < MAX_AUTO_RETRIES
             THEN Wait([attempts EXCEPT ![urlIndex + 1] = tried + 1])
             ELSE IF urlIndex + 1 < fallbackCount \/ shouldRetry(status, urlIndex)
             THEN next
             ELSE Return(status)
        ELSE IF shouldRetry(status, urlIndex) THEN next ELSE Return(status)
  /\ UNCHANGED <<fallbackCount, signalAborted, streamVars, schemaVars, reasonVars,
                 requestVars, sessionVars, importVars, responsesVars, laterVars>>

\* The timer ends: urlIndex--, continue, and the same URL is fetched again.
TimerEnds ==
  /\ awaiting = "timer"
  /\ Iterate(urlIndex, fetched, lastError, lastStatus, retryAttemptsByUrl)
  /\ UNCHANGED <<fallbackCount, signalAborted, streamVars, schemaVars, reasonVars,
                 requestVars, sessionVars, importVars, responsesVars, laterVars>>

\* catch (error): the next URL when there is one, the error rethrown
\* otherwise.
Catch(error) ==
  IF urlIndex + 1 < fallbackCount
  THEN Iterate(urlIndex + 1, Settled(error), <<error>>, lastStatus, retryAttemptsByUrl)
  ELSE /\ lastError' = <<error>>
       /\ executed' = <<[threw |-> error]>>
       /\ awaiting' = "none"
       /\ fetched' = Settled(error)
       /\ UNCHANGED <<urlIndex, lastStatus, retryAttemptsByUrl>>

\* The fetch rejects: with an AbortError when the signal has fired (at once
\* when it had fired before the call), with a network error otherwise.
Reject ==
  /\ awaiting = "fetch"
  /\ Catch(IF signalAborted THEN "AbortError" ELSE "TypeError")
  /\ UNCHANGED <<fallbackCount, signalAborted, streamVars, schemaVars, reasonVars,
                 requestVars, sessionVars, importVars, responsesVars, laterVars>>

\* The caller cancels.
Abort ==
  /\ awaiting \in {"fetch", "timer"}
  /\ ~signalAborted
  /\ signalAborted' = TRUE
  /\ UNCHANGED <<fallbackCount, awaiting, urlIndex, retryAttemptsByUrl, lastError,
                 lastStatus, fetched, executed, streamVars, schemaVars, reasonVars,
                 requestVars, sessionVars, importVars, responsesVars, laterVars>>

InitExecutor ==
  /\ IdleExcept("executor")
  /\ NoStreams
  /\ fallbackCount \in 1..MaxUrls
  /\ signalAborted \in BOOLEAN
  /\ awaiting = "idle"
  /\ urlIndex = 0 /\ retryAttemptsByUrl = <<>> /\ lastError = <<>>
  /\ lastStatus = 0 /\ fetched = <<>> /\ executed = <<>>

NextExecutor ==
  \/ Execute
  \/ \E status \in Statuses : \E retryMs \in RetryDelays : Respond(status, retryMs)
  \/ TimerEnds
  \/ Reject
  \/ Abort

SpecExecutor == InitExecutor /\ [][NextExecutor]_vars

\* ============================================================== claims

Translating(s) == phase[s] # "idle" /\ options[s].mode = "translate"

Closed(s) == phase[s] = "closed"

ToClaude(s) == Translating(s) /\ options[s].sourceFormat = "claude"

ToOpenAI(s) == Translating(s) /\ options[s].sourceFormat = "openai"

\* The translated events stream s has sent to its client, in order (the
\* payloads of the records that are not [DONE]).
Events(s) ==
  LET recs == SelectSeq(enqueued[s], LAMBDA r : ~IsDone(r))
  IN [i \in 1..Len(recs) |-> recs[i].data]

IsType(ev, t) == Has(ev, "type") /\ ev.type = t

\* A Claude block event (content_block_start / content_block_stop) of block i.
IsBlockEvent(ev, t, i) == IsType(ev, t) /\ ev.index = i

\* An OpenAI chunk announcing the assistant role: the stream-start event.
IsRoleChunk(ev) ==
  Has(ev, "choices") /\ Has(ev.choices, "delta") /\ Has(ev.choices.delta, "role")

\* An OpenAI chunk with a non-null finish_reason: the terminal event.
IsFinishChunk(ev) == Has(ev, "choices") /\ Has(ev.choices, "finish_reason")

\* The upstream chunk carries a terminal signal of its format.
HasFinishReason(chunk) ==
  Has(chunk, "choices") /\ Has(chunk.choices, "finish_reason")

\* C1: in translate mode, once the stream has been flushed, the records sent
\* to the client contain "data: [DONE]" exactly once, as the last record,
\* whatever the upstream sent (its own [DONE] lines included).
C1_DoneOnceAndLast ==
  \A s \in Streams :
    Translating(s) /\ Closed(s) =>
      /\ Count(enqueued[s], IsDone) = 1
      /\ IsDone(Last(enqueued[s]))

\* C2: for both response translators and any upstream chunk sequence, the
\* client stream holds exactly one stream-start event (once anything was
\* sent) and at most one terminal event (message_delta + message_stop, resp.
\* a chunk with a finish_reason).
C2_OneStartOneFinish ==
  \A s \in Streams :
    /\ ToClaude(s) =>
         /\ Count(Events(s), LAMBDA e : IsType(e, "message_start")) <= 1
         /\ Events(s) # <<>> =>
              Count(Events(s), LAMBDA e : IsType(e, "message_start")) = 1
         /\ Count(Events(s), LAMBDA e : IsType(e, "message_delta")) <= 1
         /\ Count(Events(s), LAMBDA e : IsType(e, "message_stop")) <= 1
    /\ ToOpenAI(s) =>
         /\ Count(Events(s), IsRoleChunk) <= 1
         /\ Events(s) # <<>> => Count(Events(s), IsRoleChunk) = 1
         /\ Count(Events(s), IsFinishChunk) <= 1

\* Every block index has as many content_block_start as content_block_stop
\* events in evs.
Balanced(evs) ==
  \A i \in 0..Len(evs) :
    Count(evs, LAMBDA e : IsBlockEvent(e, "content_block_start", i))
      = Count(evs, LAMBDA e : IsBlockEvent(e, "content_block_stop", i))

\* C3: block balance of openaiToClaudeResponse: after the final flush every
\* block index has been started and stopped the same number of times.
C3_BlockBalance ==
  \A s \in Streams : ToClaude(s) /\ Closed(s) => Balanced(Events(s))

\* C4: a translated stream whose upstream ended without a terminal signal
\* still has, after flush, every block closed and the Claude terminal events
\* message_delta, message_stop right before the final [DONE].
C4_FlushTerminates ==
  \A s \in Streams :
    (/\ ToClaude(s) /\ Closed(s)
     /\ handed[s] # <<>>
     /\ \A i \in 1..Len(handed[s]) : ~HasFinishReason(handed[s][i])
     /\ \E i \in 1..Len(handed[s]) : Has(handed[s][i], "choices"))
    => /\ Balanced(Events(s))
       /\ Len(Events(s)) >= 2
       /\ IsType(Events(s)[Len(Events(s)) - 1], "message_delta")
       /\ IsType(Last(Events(s)), "message_stop")
       /\ IsDone(Last(enqueued[s]))

\* What C10 says of one Claude event: its type, block index, block type,
\* text and stop_reason ("", -1 or <<>> where the event has none).
Shape(ev) ==
  [type |-> ev.type,
   index |-> IF Has(ev, "index") THEN ev.index ELSE -1,
   block |-> IF Has(ev, "content_block") THEN ev.content_block.type ELSE "",
   text |-> IF Has(ev, "delta") /\ Has(ev.delta, "text") THEN ev.delta.text ELSE <<>>,
   stop_reason |-> IF Has(ev, "delta") /\ Has(ev.delta, "stop_reason")
                   THEN ev.delta.stop_reason ELSE ""]

Ev(type, index, block, text, stop_reason) ==
  [type |-> type, index |-> index, block |-> block, text |-> text,
   stop_reason |-> stop_reason]

\* An OpenAI chunk that carries non-empty delta.content and nothing else
\* the translator reads, but for its finish_reason.
IsContentChunk(chunk) ==
  /\ Has(chunk, "choices") /\ Has(chunk.choices, "delta")
  /\ Has(chunk.choices.delta, "content") /\ chunk.choices.delta.content # <<>>
  /\ ReasoningOf(chunk.choices.delta) = <<>>
  /\ ~Has(chunk.choices.delta, "tool_calls")

\* The upstream chunks are n >= 1 content chunks, the last of which (and
\* no other) carries finish_reason "stop".
IsTextStream(chunks) ==
  /\ chunks # <<>>
  /\ \A i \in 1..Len(chunks) : IsContentChunk(chunks[i])
  /\ \A i \in 1..Len(chunks) - 1 : ~HasFinishReason(chunks[i])
  /\ HasFinishReason(Last(chunks)) /\ Last(chunks).choices.finish_reason = "stop"

\* C10: n >= 1 content chunks, the last with finish_reason "stop", translate
\* to exactly: message_start, content_block_start(text, 0), the n text
\* deltas in input order on block 0, content_block_stop(0),
\* message_delta(end_turn), message_stop.
C10_TextStreamEvents ==
  \A s \in Streams :
    ToClaude(s) /\ IsTextStream(handed[s]) =>
      [i \in 1..Len(Events(s)) |-> Shape(Events(s)[i])]
        = <<Ev("message_start", -1, "", <<>>, ""),
            Ev("content_block_start", 0, "text", <<>>, "")>>
          \o [i \in 1..Len(handed[s]) |->
                Ev("content_block_delta", 0, "", handed[s][i].choices.delta.content, "")]
          \o <<Ev("content_block_stop", 0, "", <<>>, ""),
               Ev("message_delta", -1, "", <<>>, "end_turn"),
               Ev("message_stop", -1, "", <<>>, "")>>

\* C10 witness: a flushed stream of three content chunks with different
\* fragments, the last with finish_reason "stop".
C10_Witness ==
  /\ ToClaude(1) /\ Closed(1)
  /\ IsTextStream(handed[1])
  /\ Len(handed[1]) = MaxLines
  /\ handed[1][1].choices.delta.content # Last(handed[1]).choices.delta.content

\* The stream run alone on bytes: one transform call with all of them,
\* then flush, on a decoder of its own.
RunAlone(opts, bytes) ==
  LET r == TransformChunk(opts, <<>>, NewStream(opts), bytes)
  IN FlushStream(opts, r.decoder, r.strm).strm

\* C5: one stream, translate mode: however the upstream bytes were cut into
\* chunks, the translator was handed the same parsed objects, in the same
\* order, as when all bytes arrive in one chunk.
C5_SameParsedObjects ==
  \A s \in Streams :
    Translating(s) /\ Closed(s) =>
      handed[s] = RunAlone(options[s], received[s]).handed

\* C5 witness: a flushed stream that was cut inside a multi-byte character
\* and still handed the translator the chunk carrying that character.
C5_Witness ==
  /\ Translating(1) /\ Closed(1) /\ splitChar[1]
  /\ Len(handed[1]) >= 2
  /\ \E i \in 1..Len(handed[1]) :
       handed[1][i] = [choices |-> [delta |-> [content |-> <<"U00E9">>]]]

\* C6: with two streams active at once, each stream's output is the output
\* it produces when run alone.
C6_StreamIsolation ==
  \A s \in Streams :
    Closed(s) => enqueued[s] = RunAlone(options[s], received[s]).enqueued

\* The text of an upstream byte stream, decoded in one piece.
TextOf(bytes) ==
  LET d == DecodeStream(<<>>, bytes) IN d.text \o DecodeEnd(d.pending).text

BytesOf(text) == Flatten([i \in 1..Len(text) |-> EncodeChar(text[i])])

\* The payload of a "data:" line.
Payload(line) == Trim(Slice(Trim(line), 5))

IsDataLine(line) == StartsWith(Trim(line), DataPrefix)

\* The usage records a sequence of lines carries, in order.
UsagesIn(lines) ==
  LET IsJson(l) == IsDataLine(l) /\ Payload(l) # DoneText /\ JSONparse(Payload(l)).ok
      carrying == SelectSeq(lines,
                    LAMBDA l : IsJson(l) /\ extractUsage(JSONparse(Payload(l)).value) # <<>>)
  IN [i \in 1..Len(carrying) |-> extractUsage(JSONparse(Payload(carrying[i])).value)]

\* The usage records of an upstream byte stream (the last line counts
\* whether or not a newline ends it).
UsagesOf(bytes) == UsagesIn(SplitLines(TextOf(bytes)))

SinkCalls(s, call) == SelectSeq(sink[s], LAMBDA c : c.call = call)

\* C7: in translate mode the usage handed to the sink at stream end is the
\* usage of the last upstream chunk that carried one, newline-terminated or
\* not.
C7_UsageLastWriteWins ==
  \A s \in Streams :
    Translating(s) /\ Closed(s) /\ UsagesOf(received[s]) # <<>> =>
      /\ SinkCalls(s, "saveRequestUsage") # <<>>
      /\ \A i \in 1..Len(SinkCalls(s, "saveRequestUsage")) :
           SinkCalls(s, "saveRequestUsage")[i].tokens = Last(UsagesOf(received[s]))

\* The usage a stream observed: the last one among the lines its transform
\* calls parsed, which are the newline-terminated lines.
Observed(bytes) ==
  LET us == UsagesIn(Front(SplitLines(TextOf(bytes))))
  IN IF us = <<>> THEN <<>> ELSE Last(us)

IsMalformed(line) ==
  IsDataLine(line) /\ Payload(line) # DoneText /\ ~JSONparse(Payload(line)).ok

\* The upstream bytes with every malformed line taken out (a malformed
\* last line without newline leaves nothing after the last newline).
WithoutMalformed(bytes) ==
  LET lines == SplitLines(TextOf(bytes))
      kept == SelectSeq(Front(lines), LAMBDA l : ~IsMalformed(l))
      tailLine == IF IsMalformed(Last(lines)) THEN <<>> ELSE Last(lines)
  IN BytesOf(Unterminated(Append(kept, tailLine)))

\* C9: in translate mode a malformed "data:" line changes nothing: the
\* output, the StreamingState, the parsed chunks and the usage handed to the
\* sink are those of the same stream without its malformed lines.
C9_MalformedDropped ==
  \A s \in Streams :
    Translating(s) /\ Closed(s) =>
      LET ref == RunAlone(options[s], WithoutMalformed(received[s]))
      IN /\ enqueued[s] = ref.enqueued
         /\ state[s] = ref.state
         /\ handed[s] = ref.handed
         /\ sink[s] = ref.sink

\* C9 witness: a flushed stream with a malformed line between two lines
\* that carry usage, both translated.
C9_Witness ==
  /\ Translating(1) /\ Closed(1)
  /\ received[1] = Terminated(<<LineOf("U"), BadLine, LineOf("V")>>)
  /\ Len(handed[1]) = 2
  /\ state[1].usage = extractUsage(Doc("V"))


\* The name the client gave the tool that went upstream as name, by the
\* request-time mapping: the original of a renamed tool, name itself for a
\* tool that was not renamed.
OriginalName(map, name) == IF MapHas(map, name) THEN MapGet(map, name) ELSE name

\* The tool names of the tool-call starts the upstream sent, in order.
UpstreamToolNames(s) ==
  LET starts(chunk) ==
        IF Has(chunk, "choices") /\ Has(chunk.choices, "delta")
           /\ Has(chunk.choices.delta, "tool_calls")
        THEN LET tcs == SelectSeq(chunk.choices.delta.tool_calls,
                                  LAMBDA tc : Has(tc, "id"))
             IN [i \in 1..Len(tcs) |-> ToolNameOf(tcs[i])]
        ELSE IF IsType(chunk, "content_block_start")
                /\ chunk.content_block.type = "tool_use"
        THEN <<chunk.content_block.name>>
        ELSE <<>>
  IN Flatten([i \in 1..Len(handed[s]) |-> starts(handed[s][i])])

\* The tool names of the tool-call starts sent to the client, in order.
ClientToolNames(s) ==
  LET starts(ev) ==
        IF IsType(ev, "content_block_start") /\ ev.content_block.type = "tool_use"
        THEN <<ev.content_block.name>>
        ELSE IF Has(ev, "choices") /\ Has(ev.choices, "delta")
                /\ Has(ev.choices.delta, "tool_calls")
        THEN LET tcs == SelectSeq(ev.choices.delta.tool_calls,
                                  LAMBDA tc : Has(tc, "id"))
             IN [i \in 1..Len(tcs) |-> tcs[i].function.name]
        ELSE <<>>
  IN Flatten([i \in 1..Len(Events(s)) |-> starts(Events(s)[i])])

\* C11: every tool-call start sent to the client carries the name the
\* request-time mapping gives for the upstream name: the original N of a
\* tool renamed to P+N, and the upstream name itself for a tool that was
\* not renamed.
C11_ToolNameRoundTrip ==
  \A s \in Streams :
    Translating(s) =>
      ClientToolNames(s) =
        [i \in 1..Len(UpstreamToolNames(s)) |->
           OriginalName(options[s].toolNameMap, UpstreamToolNames(s)[i])]


\* C12: cleaning a cleaned schema changes nothing.
C12_CleanIdempotent ==
  \A i \in 2..Len(cleaned) : cleaned[i] = cleaned[1]

\* C12 witness: a schema with a combinator, changed by the first cleaning
\* and left alone by the second.
C12_Witness ==
  /\ Len(cleaned) >= 2
  /\ Has(parameters, "anyOf")
  /\ Has(cleaned[1], "properties") /\ cleaned[1].properties = Placeholder
  /\ cleaned[2] = cleaned[1]

RECURSIVE HasCombinator(_, _)
\* Some object of the value (a "schema", a "map" or a "list" of schemas)
\* has an anyOf or oneOf keyword.
HasCombinator(kind, v) ==
  CASE kind = "list" -> \E i \in 1..Len(v) : HasCombinator("schema", v[i])
    [] kind = "map" -> \E k \in DOMAIN v : HasCombinator("schema", v[k])
    [] kind = "schema" ->
         \/ Has(v, "anyOf") \/ Has(v, "oneOf")
         \/ Has(v, "properties") /\ HasCombinator("map", v.properties)
         \/ Has(v, "items") /\ HasCombinator("schema", v.items)
         \/ Has(v, "allOf") /\ HasCombinator("list", v.allOf)

\* The rank of a branch by its type: object > array > scalar.
Rank(branch) ==
  CASE branch.type = "object" -> 3
    [] branch.type = "array" -> 2
    [] OTHER -> 1

\* The branch the flattening keeps: among the branches whose type is not
\* "null", the first one of the highest rank.
Chosen(list) ==
  LET live == {i \in 1..Len(list) : list[i].type # "null"}
      best == CHOOSE i \in live :
                /\ \A j \in live : Rank(list[j]) <= Rank(list[i])
                /\ \A j \in live : j < i => Rank(list[j]) < Rank(list[i])
  IN list[best]

\* The schema has the combinator key at its root and no other combinator
\* there, every branch has a type name, and some branch is not "null".
FlattensAt(schema, key) ==
  /\ Has(schema, key)
  /\ DOMAIN schema \cap {"anyOf", "oneOf", "allOf"} = {key}
  /\ \A i \in 1..Len(schema[key]) : Has(schema[key][i], "type")
  /\ \E i \in 1..Len(schema[key]) : schema[key][i].type # "null"

TheExample ==
  [type |-> "object", properties |-> [x |-> [const |-> Five]],
   anyOf |-> <<[type |-> "string"], [type |-> "object", properties |-> EmptyObj]>>]

\* C13: a cleaned schema has no anyOf / oneOf left; a schema with an anyOf
\* (or oneOf) list cleans to what the schema cleans to with the combinator
\* replaced by the branch of the highest rank among its non-null branches
\* (the first on ties), the other branches gone; the example of the spec
\* cleans to the object schema with the placeholder property.
C13_FlattenKeepsRichest ==
  \A i \in 1..Len(cleaned) :
    /\ ~HasCombinator("schema", cleaned[i])
    /\ \A key \in {"anyOf", "oneOf"} :
         FlattensAt(parameters, key) =>
           cleaned[i] = cleanJSONSchemaForAntigravity(
                          Assign(Without(parameters, {key}), Chosen(parameters[key])))
    /\ parameters = TheExample =>
         cleaned[i] = [type |-> "object", properties |-> Placeholder,
                       required |-> <<"reason">>]


\* The table of the spec, OpenAI -> Claude.
FinishTable ==
  [r \in {"stop", "length", "tool_calls"} |->
     CASE r = "stop" -> "end_turn" [] r = "length" -> "max_tokens"
       [] r = "tool_calls" -> "tool_use"]

\* The table of the spec, Claude -> OpenAI.
StopTable ==
  [r \in {"end_turn", "max_tokens", "tool_use", "stop_sequence"} |->
     CASE r = "end_turn" -> "stop" [] r = "max_tokens" -> "length"
       [] r = "tool_use" -> "tool_calls" [] r = "stop_sequence" -> "stop"]

\* C14: both reason mappings follow their table and give the target's
\* generic terminal reason (end_turn, stop) for every other value.
C14_ReasonTables ==
  \A i \in 1..Len(conversions) :
    LET c == conversions[i]
    IN /\ c.fn = "convertFinishReason" =>
            c.result = (IF c.reason \in DOMAIN FinishTable
                        THEN FinishTable[c.reason] ELSE "end_turn")
       /\ c.fn = "convertStopReason" =>
            c.result = (IF c.reason \in DOMAIN StopTable
                        THEN StopTable[c.reason] ELSE "stop")

\* C14 witness: an unknown reason mapped in each direction.
C14_Witness ==
  /\ Len(conversions) = 2
  /\ conversions[1] = [fn |-> "convertFinishReason", reason |-> "content_filter",
                       result |-> "end_turn"]
  /\ conversions[2] = [fn |-> "convertStopReason", reason |-> "pause_turn",
                       result |-> "stop"]


PassingThrough(s) == phase[s] # "idle" /\ options[s].mode = "passthrough"

\* The complete lines of an upstream byte stream: those a newline ends.
CompleteLines(bytes) == Front(SplitLines(TextOf(bytes)))

\* The line with exactly one space between "data:" and its payload.
OneSpace(line) ==
  IF StartsWith(line, DataPrefix)
  THEN DataPrefix \o <<" ">> \o TrimLeft(Slice(line, 5))
  ELSE line

\* C15: in passthrough mode every complete line that begins with "data:" is
\* forwarded as "data:", one space, the payload, and every other complete
\* line is forwarded as it is, each followed by a newline.
C15_OneSpaceAfterColon ==
  \A s \in Streams :
    PassingThrough(s) /\ Closed(s) =>
      LET lines == CompleteLines(received[s])
      IN /\ Len(enqueued[s]) >= Len(lines)
         /\ \A i \in 1..Len(lines) :
              enqueued[s][i].text = OneSpace(lines[i]) \o <<"NL">>

\* All the bytes a passthrough stream has enqueued.
OutBytes(recs) == BytesOf(Flatten([i \in 1..Len(recs) |-> recs[i].text]))

\* C16: in passthrough mode the bytes enqueued by the transform calls and
\* flush, and the usage handed to the sink, are those of the same upstream
\* bytes delivered in a single chunk.
C16_PassthroughSplit ==
  \A s \in Streams :
    PassingThrough(s) /\ Closed(s) =>
      LET whole == RunAlone(options[s], received[s])
      IN /\ OutBytes(enqueued[s]) = OutBytes(whole.enqueued)
         /\ sink[s] = whole.sink

\* C16 witness: a flushed stream cut inside a "data:" prefix and inside a
\* character, with a usage saved.
C16_Witness ==
  /\ PassingThrough(1) /\ Closed(1)
  /\ splitPrefix[1] /\ splitChar[1]
  /\ Len(SinkCalls(1, "saveRequestUsage")) = 1


RECURSIVE ToolRun(_, _)
\* The longest run of role:tool messages that follows msgs[i].
ToolRun(msgs, i) ==
  IF i + 1 <= Len(msgs) /\ msgs[i + 1].role = "tool"
  THEN <<msgs[i + 1]>> \o ToolRun(msgs, i + 1)
  ELSE <<>>

IsPlaceholder(msg) == msg.role = "tool" /\ msg.content = "[No response received]"

C18_SessionIdStable ==
  /\ \A i, j \in 1..Len(derived) :
       /\ derived[i].connectionId = derived[j].connectionId
            /\ derived[i].connectionId # ""
          => derived[i].id = derived[j].id
       /\ derived[i].connectionId = "" /\ i # j => derived[i].id # derived[j].id
  /\ ~MapHas(runtimeSessionStore, "")


\* ---- the Cursor auto-import route

Called == imported # <<>>

Response == imported[1].response

\* The database was opened and its queries ran.
WasRead ==
  /\ osPlatform \in {"darwin", "linux", "win32"}
  /\ osPlatform = "darwin" => readablePaths # {}
  /\ opens /\ reads

\* itemTable holds a non-empty value for credential word under a key the
\* route looks at: one of the exact keys, or on darwin a key the fuzzy query
\* returns whose lower-cased name includes the lower-cased word.
Holds(exactKeys, word) ==
  \E i \in DOMAIN itemTable :
     /\ normalizeValue(itemTable[i].value) # <<>>
     /\ \/ Includes(exactKeys, itemTable[i].key)
        \/ /\ osPlatform = "darwin"
           /\ itemTable[i] \in { FallbackRows(itemTable)[j] :
                                   j \in DOMAIN FallbackRows(itemTable) }
           /\ Contains(toLowerCase(itemTable[i].key), <<word>>)

BothObtained ==
  WasRead /\ Holds(accessTokenKeys, "accesstoken") /\ Holds(machineIdKeys, "machineid")

\* C19: GET answers found:true with accessToken and machineId exactly when
\* both an access token and a machine id were obtained from the database;
\* every other answer is found:false with an error and no credential field;
\* and when the database was read but lacks a credential the error asks the
\* user to log in to Cursor IDE first.
C19_CredentialsAllOrNothing ==
  Called =>
    /\ Response.body.found <=> BothObtained
    /\ Response.body.found =>
         /\ DOMAIN Response.body = {"found", "accessToken", "machineId"}
         /\ Response.body.accessToken # <<>>
         /\ Response.body.machineId # <<>>
    /\ ~Response.body.found =>
         /\ DOMAIN Response.body = {"found", "error"}
         /\ Response.body.error # <<>>
    /\ (WasRead /\ ~BothObtained) =>
         Response.body.error =
           <<"Tokens not found in database. Please login to Cursor IDE first.">>

\* C19 as the specification words its last sentence: whenever the database
\* was opened and GET does not answer found:true, the error asks the user to
\* log in to Cursor IDE first.
C19_LoginPromptWheneverOpened ==
  (Called /\ imported[1].opened # <<>> /\ opens /\ ~Response.body.found) =>
     Response.body.error =
       <<"Tokens not found in database. Please login to Cursor IDE first.">>

\* GET read a database that holds an access token and no machine id.
C19_Witness ==
  /\ Called
  /\ WasRead
  /\ Holds(accessTokenKeys, "accesstoken")
  /\ ~Holds(machineIdKeys, "machineid")
  /\ ~Response.body.found


\* The positions of the candidates access() accepts.
ReadableAt ==
  { i \in DOMAIN candidateDbPaths : candidateDbPaths[i] \in readablePaths }

FirstReadable == CHOOSE i \in ReadableAt : \A j \in ReadableAt : i <= j

\* C20: on an unsupported platform GET answers status 400 "Unsupported
\* platform", calls access on no path and opens no database; on linux and
\* win32 it never calls access, opens the one hard-coded path and, when that
\* fails, answers the legacy not-found message; on darwin it calls access on
\* the candidates in order up to the first readable one and opens that one,
\* and when none is readable it answers the macOS not-found error and opens
\* no database.
C20_PlatformDispatch ==
  Called =>
    /\ osPlatform \notin {"darwin", "linux", "win32"} =>
         /\ Response.status = 400
         /\ Response.body.error = <<"Unsupported platform">>
         /\ imported[1].accessCalls = <<>>
         /\ imported[1].opened = <<>>
    /\ osPlatform \in {"linux", "win32"} =>
         /\ imported[1].accessCalls = <<>>
         /\ imported[1].opened =
              <<IF osPlatform = "linux" THEN linuxDbPath ELSE win32DbPath>>
         /\ ~opens =>
              Response.body.error =
                <<"Cursor database not found. Make sure Cursor IDE is installed and you are logged in.">>
    /\ (osPlatform = "darwin" /\ ReadableAt = {}) =>
         /\ imported[1].accessCalls = candidateDbPaths
         /\ imported[1].opened = <<>>
         /\ Response.body.error =
              <<"Cursor database not found in known macOS locations. Make sure Cursor IDE is installed and opened at least once.">>
    /\ (osPlatform = "darwin" /\ ReadableAt # {}) =>
         /\ imported[1].accessCalls = SubSeq(candidateDbPaths, 1, FirstReadable)
         /\ imported[1].opened = <<candidateDbPaths[FirstReadable]>>

\* GET ran on darwin where only the Insiders database is readable, and
\* opened it after probing both candidates.
C20_Witness ==
  /\ Called
  /\ osPlatform = "darwin"
  /\ ReadableAt = {2}
  /\ imported[1].accessCalls = candidateDbPaths
  /\ imported[1].opened = <<candidateDbPaths[2]>>


\* The normalised values, in row order, of the rows of table whose key is
\* one of exactKeys or, when exactKeys is empty, of the rows the fuzzy query
\* returns whose lower-cased key includes word.
RECURSIVE ValuesUnder(_, _, _)
ValuesUnder(table, exactKeys, word) ==
  IF table = <<>> THEN <<>>
  ELSE (IF \/ exactKeys # <<>> /\ Includes(exactKeys, Head(table).key)
           \/ /\ exactKeys = <<>>
              /\ FallbackRows(<<Head(table)>>) # <<>>
              /\ Contains(toLowerCase(Head(table).key), <<word>>)
        THEN <<normalizeValue(Head(table).value)>>
        ELSE <<>>) \o ValuesUnder(Tail(table), exactKeys, word)

NonEmpty(values) == SelectSeq(values, LAMBDA v : v # <<>>)

\* What the rule "exact keys first, then on darwin the fuzzy rows, the first
\* non-empty value wins" gives for one credential: <<>> or <<value>>.
Expected(exactKeys, word) ==
  LET exact == NonEmpty(ValuesUnder(itemTable, exactKeys, word))
      fuzzy == NonEmpty(ValuesUnder(itemTable, <<>>, word))
  IN IF exact # <<>> THEN <<exact[1]>>
     ELSE IF osPlatform = "darwin" /\ fuzzy # <<>> THEN <<fuzzy[1]>>
     ELSE <<>>

ExactLeftMissing ==
  \/ NonEmpty(ValuesUnder(itemTable, accessTokenKeys, "accesstoken")) = <<>>
  \/ NonEmpty(ValuesUnder(itemTable, machineIdKeys, "machineid")) = <<>>

\* tokens.x as a credential: <<>> when it is undefined or empty.
Credential(field) == IF field = <<>> \/ field[1] = <<>> THEN <<>> ELSE field

\* C21: when GET reads the database, the fuzzy query runs exactly on darwin
\* with a credential left missing by the exact keys; a non-empty value taken
\* from an exact key is never replaced by a fuzzy match; and each credential
\* is the first non-empty value among the rows that match, in row order.
C21_FuzzyFallback ==
  (Called /\ WasRead) =>
    /\ imported[1].queries =
         IF osPlatform = "darwin" /\ ExactLeftMissing
         THEN <<"exact", "fuzzy">> ELSE <<"exact">>
    /\ Credential(imported[1].tokens.accessToken)
         = Expected(accessTokenKeys, "accesstoken")
    /\ Credential(imported[1].tokens.machineId)
         = Expected(machineIdKeys, "machineid")

\* C21 as the specification words it: each credential is the value of the
\* first row that matches, whatever that value is.
C21_FirstMatchingRowWins ==
  (Called /\ WasRead) =>
    LET access == ValuesUnder(itemTable, accessTokenKeys, "accesstoken")
    IN access # <<>> =>
         Credential(imported[1].tokens.accessToken) = Credential(<<access[1]>>)

\* GET on darwin kept the access token of an exact key and took the machine
\* id from a fuzzy row.
C21_Witness ==
  /\ Called /\ WasRead
  /\ osPlatform = "darwin"
  /\ imported[1].queries = <<"exact", "fuzzy">>
  /\ NonEmpty(ValuesUnder(itemTable, accessTokenKeys, "accesstoken")) # <<>>
  /\ Response.body.found


\* ---- block switching in openaiToClaudeResponse

\* evs[i] starts a block of the given kind.
StartsKind(evs, i, kind) ==
  IsType(evs[i], "content_block_start") /\ evs[i].content_block.type = kind

\* The block started by evs[i] has no content_block_stop among evs[i+1..n].
OpenAt(evs, i, n) ==
  ~\E j \in (i + 1)..n : IsBlockEvent(evs[j], "content_block_stop", evs[i].index)

\* The positions of the starts of blocks of one kind that are open after evs.
OpenBlocks(evs, kind) ==
  { i \in 1..Len(evs) : StartsKind(evs, i, kind) /\ OpenAt(evs, i, Len(evs)) }

\* C22: in the events openaiToClaudeResponse has emitted so far, at most one
\* text block and at most one thinking block is started and not stopped,
\* never one of each.
C22_OneOpenTextOrThinking ==
  \A s \in Streams :
    ToClaude(s) =>
      Cardinality(OpenBlocks(Events(s), "text")
                    \cup OpenBlocks(Events(s), "thinking")) <= 1

\* A text block is open after a thinking block was opened and stopped.
C22_Witness ==
  \E s \in Streams :
    /\ ToClaude(s)
    /\ OpenBlocks(Events(s), "text") # {}
    /\ \E i \in 1..Len(Events(s)) :
         StartsKind(Events(s), i, "thinking") /\ ~OpenAt(Events(s), i, Len(Events(s)))

\* C23: whenever openaiToClaudeResponse emits a content_block_start, every
\* block of another kind (text, thinking, tool_use) started before it has
\* been stopped before it, and no block of its own kind among text and
\* thinking is still open.
C23_SwitchClosesOtherKinds ==
  \A s \in Streams :
    ToClaude(s) =>
      \A i \in 1..Len(Events(s)) :
        IsType(Events(s)[i], "content_block_start") =>
          \A h \in 1..(i - 1) :
            (/\ IsType(Events(s)[h], "content_block_start")
             /\ \/ Events(s)[h].content_block.type
                     # Events(s)[i].content_block.type
                \/ Events(s)[i].content_block.type \in {"text", "thinking"})
            => ~OpenAt(Events(s), h, i - 1)


\* ---- the Responses-API translators

ToResponses == direction = "toResponses"

\* The one chunk given is pre <think> r </think> post with pre and post not
\* empty.
GivenTagged ==
  /\ ToResponses
  /\ given = <<DeltaChunk([content |-> <<"p", "<think>", "r", "</think>", "q">>])>>

\* C24: the fragment pre <think> r </think> post given as the first chunk is
\* translated into response.created, response.in_progress, then a text delta
\* carrying pre (with the events opening its message), the reasoning-open
\* events, one reasoning delta carrying r, the reasoning-close events and a
\* text delta carrying post: pre and post go out as text only, r as
\* reasoning only.
C24_InlineReasoningSplit ==
  (GivenTagged /\ ~flushed) =>
    LET deltas == SelectSeq(emitted, LAMBDA e :
                    e.data.type \in {"response.output_text.delta",
                                     "response.reasoning_summary_text.delta"})
    IN [i \in 1..Len(deltas) |-> <<deltas[i].data.type, deltas[i].data.delta>>]
         = << <<"response.output_text.delta", <<"p">>>>,
              <<"response.reasoning_summary_text.delta", <<"r">>>>,
              <<"response.output_text.delta", <<"q">>>> >>


\* The item ids of the response.output_item.added events.
OpenedItems(events) ==
  { events[i].data.item.id :
      i \in { j \in 1..Len(events) :
                events[j].data.type = "response.output_item.added" } }

\* The number of response.output_item.done events of item id.
ItemDone(events, id) ==
  Count(events, LAMBDA e :
    e.data.type = "response.output_item.done" /\ e.data.item.id = id)

\* The number of events of one type that name item id in item_id.
PartDone(events, type, id) ==
  Count(events, LAMBDA e : e.data.type = type /\ e.data.item_id = id)

\* C25: after the final flush, whatever chunks came before it (repeated
\* finish_reason chunks and repeated response.completed events included),
\* openaiToOpenAIResponsesResponse has emitted response.completed exactly once
\* and the done events of every item it opened exactly once, and
\* openaiResponsesToOpenAIResponse has returned exactly one chunk with a
\* finish_reason when it was given at least one event, none otherwise.
C25_FinishOnce ==
  flushed =>
    IF ToResponses
    THEN /\ Count(emitted, LAMBDA e : e.data.type = "response.completed") = 1
         /\ \A id \in OpenedItems(emitted) :
              /\ ItemDone(emitted, id) = 1
              /\ id[1] = "msg_" =>
                   /\ PartDone(emitted, "response.output_text.done", id) = 1
                   /\ PartDone(emitted, "response.content_part.done", id) = 1
              /\ id[1] = "rs_" =>
                   /\ PartDone(emitted, "response.reasoning_summary_text.done", id) = 1
                   /\ PartDone(emitted, "response.reasoning_summary_part.done", id) = 1
              /\ id[1] = "fc_" =>
                   PartDone(emitted, "response.function_call_arguments.done", id) = 1
    ELSE Count(emitted, IsFinishChunk) = (IF given # <<>> THEN 1 ELSE 0)

\* The part of C25 about openaiResponsesToOpenAIResponse alone.
C25_ChatFinishOnce ==
  (flushed /\ ~ToResponses) =>
    Count(emitted, IsFinishChunk) = (IF given # <<>> THEN 1 ELSE 0)


\* C26: the sequence_number of the events openaiToOpenAIResponsesResponse
\* has emitted for the stream, over all its calls and the final flush, goes
\* up by exactly one from each event to the next.
C26_SequenceNumbers ==
  ToResponses =>
    \A i \in 1..(Len(emitted) - 1) :
      emitted[i + 1].data.sequence_number = emitted[i].data.sequence_number + 1

\* Events were emitted by two chunk calls and by the flush, which closed a
\* message and a tool call.
C26_Witness ==
  /\ ToResponses /\ flushed
  /\ given = <<Doc("c"), Doc("t")>>
  /\ Last(emitted).data.type = "response.completed"
  /\ Last(emitted).data.sequence_number = Len(emitted)
  /\ Len(emitted) > 8


\* ---- tool-call arguments

\* claudeToOpenAIResponse.  What the rule "the tool_use starts get the OpenAI
\* indices 0, 1, 2, ... in order, a fragment for block b carries the index and
\* id given to block b" makes of the Claude events chunks: the <<index, id,
\* fragment>> of the argument deltas.  started counts the tool_use starts,
\* assigned maps a block index to its [index, id].
RECURSIVE RoutedToOpenAI(_, _, _)
RoutedToOpenAI(chunks, started, assigned) ==
  IF chunks = <<>> THEN <<>>
  ELSE LET ev == Head(chunks)
       IN IF IsType(ev, "content_block_start") /\ ev.content_block.type = "tool_use"
          THEN RoutedToOpenAI(Tail(chunks), started + 1,
                 MapSet(assigned, ev.index,
                        [index |-> started, id |-> ev.content_block.id]))
          ELSE IF IsType(ev, "content_block_delta")
                  /\ ev.delta.type = "input_json_delta"
                  /\ MapHas(assigned, ev.index)
          THEN << <<MapGet(assigned, ev.index).index,
                    MapGet(assigned, ev.index).id, ev.delta.partial_json>> >>
               \o RoutedToOpenAI(Tail(chunks), started, assigned)
          ELSE RoutedToOpenAI(Tail(chunks), started, assigned)

\* The <<index, id, fragment>> of the argument deltas among OpenAI chunks.
ArgumentDeltas(events) ==
  LET deltas == SelectSeq(events, LAMBDA e :
                  /\ Has(e, "choices") /\ Has(e.choices.delta, "tool_calls")
                  /\ ~Has(e.choices.delta.tool_calls[1].function, "name"))
  IN [i \in 1..Len(deltas) |->
        LET tc == deltas[i].choices.delta.tool_calls[1]
        IN <<tc.index, tc.id, tc.function.arguments>>]

\* openaiToClaudeResponse.  The <<id, fragment>> of the argument fragments
\* of the OpenAI chunks, id being the id of the tool call last opened under
\* the fragment's tool index; ids maps a tool index to that id.
RECURSIVE RoutedToClaude(_, _)
RoutedToClaude(calls, ids) ==
  IF calls = <<>> THEN <<>>
  ELSE LET tc == Head(calls)
           now == IF Has(tc, "id") THEN MapSet(ids, tc.index, tc.id) ELSE ids
       IN (IF Has(tc.function, "arguments") /\ MapHas(now, tc.index)
           THEN << <<MapGet(now, tc.index), tc.function.arguments>> >>
           ELSE <<>>) \o RoutedToClaude(Tail(calls), now)

\* The elements of delta.tool_calls of the chunks, in order.
ToolCallsOf(chunks) ==
  Flatten([i \in 1..Len(chunks) |->
             IF Has(chunks[i], "choices") /\ Has(chunks[i].choices.delta, "tool_calls")
             THEN chunks[i].choices.delta.tool_calls ELSE <<>>])

\* The <<id, fragment>> of the input_json_delta events among Claude events,
\* id being the id of the tool_use block last started under the event's
\* block index (<<>> when no block was).
JsonDeltas(events) ==
  LET at == SelectSeq([i \in 1..Len(events) |-> i], LAMBDA i :
              IsType(events[i], "content_block_delta")
              /\ events[i].delta.type = "input_json_delta")
  IN [n \in 1..Len(at) |->
        LET starts == { h \in 1..(at[n] - 1) :
                          /\ IsBlockEvent(events[h], "content_block_start",
                                          events[at[n]].index)
                          /\ events[h].content_block.type = "tool_use" }
        IN << IF starts = {} THEN <<>>
              ELSE events[CHOOSE h \in starts : \A g \in starts : g <= h]
                     .content_block.id,
              events[at[n]].delta.partial_json >>]

\* The Claude events hold no message_start after a tool_use start: they are
\* the events of one message.
OneMessage(chunks) ==
  \A i, j \in 1..Len(chunks) :
    (IsType(chunks[i], "content_block_start") /\ IsType(chunks[j], "message_start"))
      => j < i

OpenedToolIndices(chunks) ==
  LET calls == ToolCallsOf(chunks)
  IN { calls[i].index : i \in { j \in 1..Len(calls) : Has(calls[j], "id") } }

\* chunk is nothing but argument deltas for tool indices no chunk of chunks
\* opens.
IsStrayDelta(chunk, chunks) ==
  /\ Has(chunk, "choices") /\ ~Has(chunk.choices, "finish_reason")
  /\ DOMAIN chunk.choices.delta = {"tool_calls"}
  /\ \A i \in 1..Len(chunk.choices.delta.tool_calls) :
       /\ ~Has(chunk.choices.delta.tool_calls[i], "id")
       /\ chunk.choices.delta.tool_calls[i].index \notin OpenedToolIndices(chunks)

\* What the translator returns, call after call, for chunks and, when
\* flush is TRUE, for the final null.
RECURSIVE Replay(_, _, _, _)
Replay(dir, chunks, st, flush) ==
  IF chunks = <<>>
  THEN IF flush THEN Call(dir, NullChunk, st).out ELSE <<>>
  ELSE LET r == Call(dir, Head(chunks), st)
       IN r.out \o Replay(dir, Tail(chunks), r.state, flush)

\* chunks with every such chunk replaced by a chunk of empty delta.
WithoutStrayDeltas(chunks) ==
  [i \in 1..Len(chunks) |->
     IF IsStrayDelta(chunks[i], chunks) THEN DeltaChunk(EmptyObj) ELSE chunks[i]]

\* C28: an argument delta for a tool index under which no tool call was
\* opened is a no-op of openaiToOpenAIResponsesResponse: the events emitted
\* for a stream are those of the same stream with an empty delta in the place
\* of each such delta, so it emits nothing and changes nothing of what
\* follows.
C28_StrayDeltaIsNoOp ==
  ToResponses =>
    emitted = Replay("toResponses", WithoutStrayDeltas(given),
                     InitResponsesState, flushed)

\* The block indices under which the Claude events start a tool_use block.
OpenedBlocks(events) ==
  { events[i].index : i \in { j \in 1..Len(events) :
      IsType(events[j], "content_block_start")
      /\ events[j].content_block.type = "tool_use" } }

\* What translateResponse returns, call after call, for chunks.
RECURSIVE ReplayChat(_, _, _)
ReplayChat(opts, chunks, st) ==
  IF chunks = <<>> THEN <<>>
  ELSE LET r == translateResponse(opts.targetFormat, opts.sourceFormat,
                                  Head(chunks), st)
       IN r.results \o ReplayChat(opts, Tail(chunks), r.state)

\* The same for openaiToClaudeResponse and claudeToOpenAIResponse, before
\* the end of the stream: the events sent are those of the stream with an
\* empty delta in the place of each stray OpenAI delta, resp. without the
\* input_json_delta events of blocks that were never started.
C28_ChatTranslators ==
  \A s \in Streams :
    /\ (ToClaude(s) /\ ~Closed(s)) =>
         Events(s) = ReplayChat(options[s], WithoutStrayDeltas(handed[s]),
                                NewStream(options[s]).state)
    /\ (ToOpenAI(s) /\ ~Closed(s)) =>
         Events(s) = ReplayChat(options[s],
                       SelectSeq(handed[s], LAMBDA e :
                         ~(/\ IsType(e, "content_block_delta")
                           /\ e.delta.type = "input_json_delta"
                           /\ e.index \notin OpenedBlocks(handed[s]))),
                       NewStream(options[s]).state)

\* A stream of each kind held such a delta.
C28_ChatWitness ==
  \E s \in Streams :
    /\ Translating(s) /\ ~Closed(s) /\ Len(handed[s]) = 3
    /\ \/ ToClaude(s) /\ IsStrayDelta(handed[s][2], handed[s])
       \/ ToOpenAI(s) /\ handed[s][2] = Doc("J") /\ 2 \notin OpenedBlocks(handed[s])


\* A translation of stream s has thrown: an event was handed to the
\* translator that it throws on.
TranslationFailed(s) ==
  \E i \in 1..Len(handed[s]) :
    openaiToClaudeRaises(handed[s][i], NewStream(options[s]).state)

\* C29: when the translation of an upstream event throws, during a
\* transform call or during the flush, the stream is not broken: it is not
\* errored, and once it is over the client has received a stream that ends
\* in data: [DONE].
C29_ErrorsDoNotBreakStream ==
  \A s \in Streams :
    Translating(s) /\ TranslationFailed(s) =>
      /\ phase[s] # "errored"
      /\ Closed(s) => enqueued[s] # <<>> /\ IsDone(Last(enqueued[s]))

\* The streams no translation has thrown in end in data: [DONE].
C29_WithoutErrors ==
  \A s \in Streams :
    Translating(s) /\ ~TranslationFailed(s) /\ Closed(s) =>
      enqueued[s] # <<>> /\ IsDone(Last(enqueued[s]))

\* The flush swallows what the translation of the buffered line throws and
\* closes the stream without data: [DONE].
C29_FlushWitness ==
  \E s \in Streams :
    /\ Closed(s) /\ TranslationFailed(s)
    /\ ~(enqueued[s] # <<>> /\ IsDone(Last(enqueued[s])))


\* The fetches that failed because the caller's signal had fired.
Cancelled == { i \in 1..Len(fetched) : fetched[i].outcome = "AbortError" }

\* C30: when a fetch of execute fails because the caller's abort signal has
\* fired, execute issues no further fetch, against the same URL or a fallback
\* URL, and throws the cancellation to its caller.
C30_CancellationNotRetried ==
  \A i \in Cancelled :
    /\ i = Len(fetched)
    /\ executed = <<[threw |-> "AbortError"]>>

\* Once execute is over after a cancelled fetch, it has thrown the
\* cancellation.
C30_CancellationPropagated ==
  awaiting = "none" /\ Cancelled # {} => executed = <<[threw |-> "AbortError"]>>

\* A cancelled run of execute is over.
C30_PropagatedWitness ==
  awaiting = "none" /\ Cancelled # {} /\ Len(fetched) > 1


\* The number of fetch calls made against the URL of index u.
FetchesOf(u) == Cardinality({ i \in 1..Len(fetched) : fetched[i].urlIndex = u })

\* retryAttemptsByUrl[u], 0 before the call.
AutoRetries(u) ==
  IF u + 1 \in DOMAIN retryAttemptsByUrl THEN retryAttemptsByUrl[u + 1] ELSE 0

\* C35: execute ends after a bounded number of fetch attempts: against every
\* URL, the attempts after the first are the counted automatic retries, of
\* which there are at most MAX_AUTO_RETRIES, also when the upstream keeps
\* answering 429 or 503 with a retry hint of at most 10 seconds.
C35_AttemptsBounded ==
  \A u \in 0..(fallbackCount - 1) :
    /\ AutoRetries(u) <= MAX_AUTO_RETRIES
    /\ FetchesOf(u) <= 1 + AutoRetries(u)

\* The hint-less 429 retry is used at most MAX_AUTO_RETRIES times per URL.
C35_AutoRetriesBounded ==
  \A u \in 0..(fallbackCount - 1) : AutoRetries(u) <= MAX_AUTO_RETRIES

\* The automatic retries of a URL are used up and the URL answers 429 again.
C35_AutoRetriesWitness ==
  \E u \in 0..(fallbackCount - 1) :
    AutoRetries(u) = MAX_AUTO_RETRIES /\ FetchesOf(u) = MAX_AUTO_RETRIES + 1
      /\ awaiting = "none"


DeltaTypes ==
  {"response.output_text.delta", "response.reasoning_summary_text.delta",
   "response.function_call_arguments.delta"}

\* C37: in the events openaiToOpenAIResponsesResponse has emitted for the
\* stream, response.created comes before every other event (also before the
\* response.completed of a stream without content), no delta event of an
\* item comes after the output_item.done of that item, and no event comes
\* after response.completed.
C37_EventOrdering ==
  ToResponses =>
    /\ emitted # <<>> => emitted[1].data.type = "response.created"
    /\ \A i, j \in 1..Len(emitted) :
         i < j =>
           /\ emitted[i].data.type # "response.completed"
           /\ ~ /\ emitted[i].data.type = "response.output_item.done"
                /\ emitted[j].data.type \in DeltaTypes
                /\ emitted[j].data.item_id = emitted[i].data.item.id

\* response.created comes first on the streams that were given a chunk with
\* a choice before anything else.
C37_CreatedFirstWhenStarted ==
  (ToResponses /\ given # <<>> /\ Has(given[1], "choices")) =>
    (emitted # <<>> /\ emitted[1].data.type = "response.created")


\* The positions of the content_block_start events of evs.
BlockStarts(evs) == { i \in 1..Len(evs) : IsType(evs[i], "content_block_start") }

\* The indices of the blocks are 0, 1, 2, ... in the order of their starts.
FreshIndices(evs) ==
  \A i \in BlockStarts(evs) :
    evs[i].index = Cardinality({ j \in BlockStarts(evs) : j < i })

\* Every content_block_delta is for a block started before it and not
\* stopped before it.
DeltasInOpenBlocks(evs) ==
  \A j \in 1..Len(evs) :
    IsType(evs[j], "content_block_delta") =>
      \E i \in BlockStarts(evs) :
        i < j /\ evs[i].index = evs[j].index /\ OpenAt(evs, i, j)

\* C38: in the events openaiToClaudeResponse has emitted, the blocks are
\* numbered 0, 1, 2, ... in the order they are started, and every
\* content_block_delta carries the index of a block that is started and not
\* yet stopped when the delta is emitted, also when tool-call arguments
\* arrive after a finish_reason chunk.
C38_BlockIndices ==
  \A s \in Streams :
    ToClaude(s) => FreshIndices(Events(s)) /\ DeltasInOpenBlocks(Events(s))

\* The first half of C38 alone: fresh consecutive indices.
C38_FreshIndices ==
  \A s \in Streams : ToClaude(s) => FreshIndices(Events(s))

\* Three blocks have been started.
C38_FreshWitness ==
  \E s \in Streams : ToClaude(s) /\ Cardinality(BlockStarts(Events(s))) = 3


RECURSIVE NoListKeyword(_)
\* No object of the schema has an anyOf, oneOf or allOf keyword, so every
\* object of the input is an object of the result.
NoListKeyword(v) ==
  /\ ~Has(v, "anyOf") /\ ~Has(v, "oneOf") /\ ~Has(v, "allOf")
  /\ Has(v, "properties") => \A k \in DOMAIN v.properties : NoListKeyword(v.properties[k])
  /\ Has(v, "items") => NoListKeyword(v.items)

RECURSIVE NamesKept(_, _, _)
\* Of the parameter names every object of the schema before declares, the
\* ones outside the set dropped are declared by the same object after; a
\* name the object after has and the object before has not is the
\* placeholder's, on an object that declared no property outside that set.
NamesKept(before, after, dropped) ==
  /\ (Has(before, "properties") /\ Has(after, "properties")) =>
       /\ DOMAIN before.properties \ dropped \subseteq DOMAIN after.properties
       /\ DOMAIN after.properties \ DOMAIN before.properties # {} =>
            DOMAIN before.properties \ dropped = {} /\ after.properties = Placeholder
       /\ \A k \in DOMAIN before.properties \cap DOMAIN after.properties :
            NamesKept(before.properties[k], after.properties[k], dropped)
  /\ (~Has(before, "properties") /\ Has(after, "properties")) =>
       after.properties = Placeholder
  /\ (Has(before, "items") /\ Has(after, "items")) =>
       NamesKept(before.items, after.items, dropped)

\* C40: the cleaning never deletes or renames a tool parameter: on every
\* object whose properties map survives, every declared parameter name is
\* still there, also a name that equals a deny-listed keyword (title,
\* format, default, pattern, ...); the only parameter added is the reason
\* placeholder, on objects without properties.
C40_ParameterNamesKept ==
  (cleaned # <<>> /\ NoListKeyword(parameters)) =>
    NamesKept(parameters, cleaned[1], {})

\* What holds of C40: the names that are not deny-listed keywords are kept.
C40_OtherNamesKept ==
  (cleaned # <<>> /\ NoListKeyword(parameters)) =>
    NamesKept(parameters, cleaned[1], UNSUPPORTED_SCHEMA_CONSTRAINTS)

\* A schema that declares a parameter has been cleaned and still declares it.
C40_OtherNamesWitness ==
  /\ cleaned # <<>> /\ NoListKeyword(parameters)
  /\ Has(parameters, "properties") /\ "x" \in DOMAIN parameters.properties
  /\ "x" \in DOMAIN cleaned[1].properties


FromGemini == direction = "fromGemini"

\* The finish reasons of the OpenAI vocabulary.
OpenAIFinishReasons == {"stop", "length", "tool_calls", "content_filter"}

\* C33: every finish_reason geminiToOpenAIResponse emits is one of stop,
\* length, tool_calls, content_filter.
C33_FinishReasonsInVocabulary ==
  FromGemini =>
    \A i \in 1..Len(emitted) :
      Has(emitted[i].choices, "finish_reason") =>
        emitted[i].choices.finish_reason \in OpenAIFinishReasons


\* The translator state of stream s keeps the message id and the model it
\* has.
IdentityKept(s) ==
  state[s].messageId # "" =>
    state'[s].messageId = state[s].messageId /\ state'[s].model = state[s].model

\* C34: once the first chunk that carries them has set the message id and
\* the model of a stream, no later chunk changes them, in every response
\* translator (also a second message_start, or a later chunk with another
\* id or model).
C34_IdentityKept ==
  [][\A s \in Streams : Translating(s) => IdentityKept(s)]_vars

\* What holds of C34: openaiToClaudeResponse keeps the identity.
C34_OpenAIIdentityKept ==
  [][\A s \in Streams : ToClaude(s) => IdentityKept(s)]_vars

\* A second chunk with another id and model was translated by
\* openaiToClaudeResponse.
C34_OpenAIWitness ==
  \E s \in Streams :
    /\ ToClaude(s) /\ Len(handed[s]) >= 2
    /\ handed[s][1] = Doc("i") /\ handed[s][2] = Doc("I")
    /\ state[s].messageId = "chatcmpl_1" /\ state[s].model = "gpt"

\* What holds of C34: geminiToOpenAIResponse keeps the identity.
C34_GeminiIdentityKept ==
  [][(FromGemini /\ translatorState.messageId # "") =>
       /\ translatorState'.messageId = translatorState.messageId
       /\ translatorState'.model = translatorState.model]_vars

\* geminiToOpenAIResponse was given a second response with another id.
C34_GeminiWitness ==
  /\ FromGemini /\ Len(given) >= 2
  /\ Has(given[1], "responseId") /\ Has(given[2], "response")
  /\ translatorState.messageId = "resp_1" /\ translatorState.model = "gemini-pro"


\* The turns of a Kiro payload: the history entries, then currentMessage.
KiroTurns(payload) ==
  Append(payload.conversationState.history, payload.conversationState.currentMessage)

\* "user" or "assistant".
TurnRole(entry) == IF Has(entry, "userInputMessage") THEN "user" ELSE "assistant"

\* C31: in the history entries of the Kiro payload followed by its
\* currentMessage, no two adjacent entries are both user turns or both
\* assistant turns, also when an assistant message with tool calls is
\* directly followed by another assistant message.
C31_TurnsAlternate ==
  kiroPayload # <<>> =>
    LET turns == KiroTurns(kiroPayload[1])
    IN \A i \in 1..(Len(turns) - 1) : TurnRole(turns[i]) # TurnRole(turns[i + 1])

\* The turns of the payload that carry the tool specifications.
TurnsWithTools(payload) ==
  { i \in 1..Len(KiroTurns(payload)) : HasTools(KiroTurns(payload)[i]) }

\* C32: with a non-empty tools list, the payload carries the tool
\* specifications on exactly one turn, the first user turn of the
\* conversation.
C32_ToolsOnFirstUserTurn ==
  (kiroPayload # <<>> /\ kiroRequest.tools # <<>>) =>
    LET turns == KiroTurns(kiroPayload[1])
        users == { i \in 1..Len(turns) : TurnRole(turns[i]) = "user" }
    IN TurnsWithTools(kiroPayload[1])
         = { CHOOSE i \in users : \A j \in users : i <= j }

\* What holds of C32: no history entry carries the tool specifications,
\* only currentMessage may.
C32_ToolsOnlyOnCurrentMessage ==
  kiroPayload # <<>> =>
    TurnsWithTools(kiroPayload[1]) \subseteq {Len(KiroTurns(kiroPayload[1]))}

\* A conversation of three turns whose currentMessage carries the tools.
C32_CurrentMessageWitness ==
  /\ kiroPayload # <<>> /\ kiroRequest.tools # <<>>
  /\ Len(KiroTurns(kiroPayload[1])) = 3
  /\ TurnsWithTools(kiroPayload[1]) = {3}


\* The sessionId in the body of an issued request.
BodySessionId(entry) == entry.request.body.json.request.sessionId

\* C36: two Antigravity requests on the same connection carry the same
\* sessionId in the upstream body and in the X-Machine-Session-Id header,
\* the id the session store holds for the connection.
C36_SessionContinuity ==
  \A i \in 1..Len(sent) :
    /\ MapHas(runtimeSessionStore, sent[i].connection)
    /\ BodySessionId(sent[i]) = MapGet(runtimeSessionStore, sent[i].connection)
    /\ sent[i].request.headers["X-Machine-Session-Id"]
         = ToString(BodySessionId(sent[i]))
    /\ \A j \in 1..Len(sent) :
         sent[i].connection = sent[j].connection =>
           BodySessionId(sent[i]) = BodySessionId(sent[j])

\* What holds of C36: the header is the body's sessionId, and the requests
\* whose body arrives without a sessionId carry the store's id.
C36_DerivedWhenAbsent ==
  \A i \in 1..Len(sent) :
    /\ sent[i].request.headers["X-Machine-Session-Id"]
         = ToString(BodySessionId(sent[i]))
    /\ sent[i].origin = "native" =>
         /\ MapHas(runtimeSessionStore, sent[i].connection)
         /\ BodySessionId(sent[i]) = MapGet(runtimeSessionStore, sent[i].connection)

\* Two requests without a sessionId of their own went out on one connection.
C36_DerivedWitness ==
  /\ Len(sent) = 2
  /\ sent[1].connection = sent[2].connection
  /\ sent[1].origin = "native" /\ sent[2].origin = "native"
  /\ BodySessionId(sent[1]) = BodySessionId(sent[2])

\* The request carries the internal header x-request-source: local.
IsInternal(request) ==
  /\ Has(request.headers, "x-request-source")
  /\ request.headers["x-request-source"] = "local"

\* The URL of the request contains :generateContent or :streamGenerateContent.
IsChatUrl(request) ==
  \E i \in 1..Len(request.url) :
    request.url[i] \in {":generateContent", ":streamGenerateContent"}

\* db.json holds a non-empty alias for the model of the request.
HasAlias(request) ==
  /\ Has(request.body, "json") /\ Has(request.body.json, "model")
  /\ mitmAlias # <<>> /\ Has(mitmAlias[1], "mitmAlias")
  /\ Has(mitmAlias[1].mitmAlias, "antigravity")
  /\ \E k \in DOMAIN mitmAlias[1].mitmAlias.antigravity :
       k = request.body.json.model /\ mitmAlias[1].mitmAlias.antigravity[k] # ""

=============================================================================
